---- MODULE Spec2Model ----
(***************************************************************************)
(* Tenant access resolver (app/core/dependencies.py, database.py,          *)
(* middleware.py) and cursor-based sync engine (app/services/              *)
(* plaid_service.py) of product-core-api, as state machines.               *)
(*                                                                         *)
(* Strings that the code manipulates character by character (subject ids,  *)
(* slugs) are sequences of one-character strings.  Identifiers that the    *)
(* code only compares (uuids, cursors) are integers; Null is Python None.  *)
(***************************************************************************)
EXTENDS Integers, Sequences, FiniteSets, TLC

\* ------------------------------------------------------------------ bounds
MaxTime == 2
MaxTenants == 4
MaxRuns == 2
MaxSessions == 2

\* --------------------------------------------------------- program constants
Null == -1
PUBLIC_TENANT == 0
SlugPrefixLen == 50
REQUIRE_AUTH == TRUE

Min(a, b) == IF a < b THEN a ELSE b

\* ------------------------------------------------------------------- values
UserA == <<"a", "@", "x">>
UserB == <<"b", ".", "y">>
Anonymous == <<"a", "n", "o", "n">>
Users == {UserA, UserB}

AcmeId == 1
BetaId == 2

SlugAcme == <<"a", "c", "m", "e">>
SlugBeta == <<"b", "e", "t", "a">>
SlugNope == <<"n", "o", "p", "e">>
SlugPersonal == <<"p", "e", "r", "s", "o", "n", "a", "l">>
NoSlug == <<>>

PlatformRoles == {"standard", "platform_admin", "support_agent"}

NoSecret == "none"
SecretValue == "s3cret"
WrongToken == "wrong"
NoToken == "absent"

IpAddr == "10.0.0.7"

Reqs == {1, 2}

\* ------------------------------------------------------------------- rows
TenantRow(id, slug, type, owner, active) ==
    [id |-> id, slug |-> slug, type |-> type, owner |-> owner, active |-> active]

MemberRow(user, tenant, role, active, sae, exp) ==
    [user |-> user, tenant |-> tenant, role |-> role, active |-> active,
     sae |-> sae, exp |-> exp]

NoMembership == MemberRow(<<>>, Null, "none", FALSE, FALSE, Null)

\* mutant: the entry written without the caller's address
AuditRow_no_ip(user, tenant, action, ip) ==
    [user |-> user, tenant |-> tenant, action |-> action, ip |-> "none"]

AuditRow(user, tenant, action, ip) ==
    [user |-> user, tenant |-> tenant, action |-> action, ip |-> ip]

TenantContext(tenant, membership, support, admin) ==
    [tenant |-> tenant, user_membership |-> membership,
     is_support_access |-> support, is_platform_admin |-> admin]

NoContext == TenantContext(Null, NoMembership, FALSE, FALSE)

NoPending == [tenants |-> {}, members |-> {}, audits |-> <<>>]

NoIdentity == [sub |-> <<>>, tenant_id |-> Null, role |-> "none"]

VARIABLES
    now,            \* datetime.now(timezone.utc), in whole time units
    supportSecret,  \* SUPPORT_ACCESS_SECRET
    tenants,        \* committed rows of table tenants
    members,        \* committed rows of table user_tenants
    auditLog,       \* committed rows of table support_access_logs, oldest first
    nextId,         \* next fresh uuid4 for a tenants row
    pc,             \* per request: position in the dependency chain
    inp,            \* per request: credential and headers
    ident,          \* per request: TokenData returned by get_current_user
    ctx,            \* per request: ContextVar current_tenant_id
    sessKey,        \* per request: app.current_tenant of the request's session
    found,          \* per request: id of the tenant looked up
    pend,           \* per request: rows flushed but not committed
    outcome,        \* per request: "ok" or the denial raised
    rctx,           \* per request: TenantContext returned
    accessKeys      \* per request: session keys its storage operations ran under

rvars == <<now, supportSecret, tenants, members, auditLog, nextId, pc, inp, ident,
           ctx, sessKey, found, pend, outcome, rctx, accessKeys>>

VARIABLES
    items,          \* rows of table plaid_items, by id
    txns,           \* rows of table transactions
    bpc,            \* position of the batch job (sync_transactions / sync_due_items)
    bkind,          \* "all" or "due"
    queue,          \* items selected and not yet visited, in iteration order
    cur,            \* the item being synced
    cursor,         \* local `cursor` of _sync_item_transactions
    summary,        \* the summary dict of the running job
    selected,       \* items the running job selected
    result,         \* per item: "ok" / "failed" in the running job
    pagesOk,        \* per item: pages applied in the running job
    lastToken,      \* per item: next_cursor of the last page applied in the job
    startCursor,    \* per item: transaction_cursor when the job selected it
    runs            \* batch jobs started so far

svars == <<items, txns, bpc, bkind, queue, cur, cursor, summary, selected, result,
           pagesOk, lastToken, startCursor, runs>>

\* manual sync of one item (POST /plaid/sync/{item_id})
VARIABLES
    plaidConfigured, \* PLAID_CLIENT_ID and PLAID_SECRET are both set
    opc,            \* position of the manual sync request
    oarg,           \* its item_id and the tenant_id of the caller's token
    ocursor,        \* local `cursor` of _sync_item_transactions
    osummary,       \* internal_summary of the request
    oout,           \* how the request ended
    osnap,          \* items and transactions when the request's transaction began
    oruns           \* manual sync requests started so far

ovars == <<plaidConfigured, opc, oarg, ocursor, osummary, oout, osnap, oruns>>

\* impersonation session manager (app/routers/support.py)
VARIABLES
    sessions,       \* _active_sessions: the session records, each with its id
    nextSession,    \* next fresh uuid4 for a session
    mop             \* the last call of the manager: operation, caller, outcome

mvars == <<sessions, nextSession, mop>>

\* the authorization helpers that wrap the resolver
VARIABLES
    gctx,           \* the TenantContext handed to a helper
    gcall           \* the last helper called: its name, role list and outcome

gvars == <<gctx, gcall>>

\* the provider
VARIABLES
    feeds           \* per item: the pages the provider holds for it, in order

pvars == <<feeds>>

\* two syncs of one item, each in its own database transaction
VARIABLES
    cpc,            \* per sync: "idle", "page" (in the while loop), "flush", "done"
    cloaded,        \* per sync: transaction_cursor of the PlaidItem it loaded
    ccursor,        \* per sync: local `cursor` of _sync_item_transactions
    ctouched,       \* per sync: ids of the rows it wrote or deleted, uncommitted
    cups,           \* per sync: the rows it inserted or updated, uncommitted
    cruns           \* per sync: runs started so far

cvars == <<cpc, cloaded, ccursor, ctouched, cups, cruns>>

xvars == <<ovars, mvars, gvars, pvars, cvars>>

vars == <<rvars, svars, xvars>>

\* ------------------------------------------------- pure helpers of the code
\* str.replace(a, b)
Replace(s, a, b) == [i \in 1..Len(s) |-> IF s[i] = a THEN b ELSE s[i]]

\* s[:n]
Take(s, n) == SubSeq(s, 1, Min(n, Len(s)))

\* f"user-{user_id.replace('@', '-').replace('.', '-')[:50]}"
IndividualSlug(user_id) ==
    <<"u", "s", "e", "r", "-">>
        \o Take(Replace(Replace(user_id, "@", "-"), ".", "-"), SlugPrefixLen)

\* select(Tenant).where(slug == slug, is_active)
get_tenant_by_slug(rows, slug) == {t \in rows : t.slug = slug /\ t.active}

\* select(Tenant).where(owner_user_id == sub, type == INDIVIDUAL, is_active)
IndividualTenantsOf(rows, sub) ==
    {t \in rows : t.owner = sub /\ t.type = "individual" /\ t.active}

\* mutant: the membership select without its is_active filter
get_user_tenant_membership_any(rows, user, tid) ==
    {m \in rows : m.user = user /\ m.tenant = tid}

\* select(UserTenant).where(user_id, tenant_id, is_active)
get_user_tenant_membership(rows, user, tid) ==
    {m \in rows : m.user = user /\ m.tenant = tid /\ m.active}

\* the expiry test of verify_support_access on the row it selected
SupportExpired(m, t) == m.exp # Null /\ m.exp < t

\* verify_support_access: a row with support_access_enabled and is_active,
\* not expired
verify_support_access(rows, user, tid, t) ==
    LET ms == {m \in rows : m.user = user /\ m.tenant = tid /\ m.sae /\ m.active}
    IN  /\ ms # {}
        /\ ~SupportExpired(CHOOSE m \in ms : TRUE, t)

\* mutant: the bypass keyed on the tenant-level role name
is_platform_admin_wrong_name(role) == role = "admin"

\* is_platform_admin = user.role == "platform_admin"
is_platform_admin(role) == role = "platform_admin"

\* is_support_agent = user.role == "support_agent"
is_support_agent(role) == role = "support_agent"

\* the contexts get_current_tenant returns on its four paths
PersonalContext(tid, m, role) == TenantContext(tid, m, FALSE, is_platform_admin(role))
\* mutant: the bypass context built without its flag
AdminContext_noflag(tid) == TenantContext(tid, NoMembership, FALSE, FALSE)
AdminContext(tid) == TenantContext(tid, NoMembership, FALSE, TRUE)
SupportContext(tid) == TenantContext(tid, NoMembership, TRUE, FALSE)
MemberContext(tid, m) == TenantContext(tid, m, FALSE, FALSE)

\* mutant: a request without the header passes the token test
SupportTokenRejected_absent_ok(secret, token) ==
    secret # NoSecret /\ token # secret /\ token # NoToken

\* `SUPPORT_ACCESS_SECRET and x_support_token != SUPPORT_ACCESS_SECRET`
SupportTokenRejected(secret, token) == secret # NoSecret /\ token # secret

\* mutant: tenants.slug without its unique index
SlugConflict_off(rows, slug) == FALSE

\* unique=True on tenants.slug
SlugConflict(rows, slug) == \E t \in rows : t.slug = slug

\* UniqueConstraint("user_id", "tenant_id")
MemberConflict(rows, user, tid) == \E m \in rows : m.user = user /\ m.tenant = tid

\* mutant: the key is never propagated
SetTenantKey_noop(cv, r, tid) == cv

\* mutant: the key held in a module global shared by all requests
SetTenantKey_global(cv, r, tid) == [q \in DOMAIN cv |-> tid]

\* ContextVar.set in the calling request's context
SetTenantKey(cv, r, tid) == [cv EXCEPT ![r] = tid]

\* `current_tenant_id.get() or PUBLIC_TENANT` of get_db
SessionKeyFor(cv, r) == IF cv[r] = Null THEN PUBLIC_TENANT ELSE cv[r]

\* ------------------------------------------------ what a request can see
VisibleTenants(r) == tenants \cup pend[r].tenants
VisibleMembers(r) == members \cup pend[r].members
OthersPendingTenants(r) == UNION {pend[q].tenants : q \in Reqs \ {r}}
OthersPendingMembers(r) == UNION {pend[q].members : q \in Reqs \ {r}}

\* a storage operation of request r runs under the session's key; recorded with
\* the isolation key cv[r] the request holds at that moment
Accessed(r, cv) == [accessKeys EXCEPT ![r] = @ \cup {<<sessKey[r], cv[r]>>}]

\* ------------------------------------------------------------ request inputs
Input(cred, sub, role, tokenTenant, slug, token) ==
    [cred |-> cred, sub |-> sub, role |-> role, tokenTenant |-> tokenTenant,
     slug |-> slug, token |-> token]

NoInput == Input("none", <<>>, "none", Null, NoSlug, NoToken)

\* tenant_id claims a token may carry (absent: PUBLIC_TENANT)
TokenTenants == {PUBLIC_TENANT, AcmeId}

Selectors == {NoSlug, SlugPersonal, SlugAcme, SlugBeta, SlugNope}

TokensFor(role) ==
    IF role = "support_agent" THEN {NoToken, SecretValue, WrongToken} ELSE {NoToken}

Inputs ==
    {Input(c, <<>>, "none", Null, NoSlug, NoToken) : c \in {"none", "bad"}}
    \cup UNION {
        {Input("valid", u, ro, tt, sl, tk) : tk \in TokensFor(ro)} :
            <<u, ro, tt, sl>> \in Users \X PlatformRoles \X TokenTenants \X Selectors}

\* ----------------------------------------------------------- initial store
InitTenants ==
    {TenantRow(AcmeId, SlugAcme, "organization", <<>>, TRUE),
     TenantRow(BetaId, SlugBeta, "organization", <<>>, TRUE)}

\* rows of user_tenants that UserA may hold on acme: none, a plain member row
\* (active or not), or a row with a support-access grant
AcmeRowChoices ==
    {{}}
    \cup {{MemberRow(UserA, AcmeId, "member", a, FALSE, Null)} : a \in BOOLEAN}
    \cup {{MemberRow(UserA, AcmeId, "support_agent", a, TRUE, e)} :
              <<a, e>> \in BOOLEAN \X {Null, 1}}

BetaRowChoices ==
    {{}, {MemberRow(UserA, BetaId, "owner", TRUE, FALSE, Null)}}

InitStore ==
    /\ now = 0
    /\ supportSecret \in {NoSecret, SecretValue}
    /\ tenants = InitTenants
    /\ \E ra \in AcmeRowChoices, rb \in BetaRowChoices : members = ra \cup rb
    /\ auditLog = <<>>
    /\ nextId = 3

InitRequests(active) ==
    /\ pc = [r \in Reqs |-> IF r \in active THEN "idle" ELSE "off"]
    /\ inp = [r \in Reqs |-> NoInput]
    /\ ident = [r \in Reqs |-> NoIdentity]
    /\ ctx = [r \in Reqs |-> Null]
    /\ sessKey = [r \in Reqs |-> Null]
    /\ found = [r \in Reqs |-> Null]
    /\ pend = [r \in Reqs |-> NoPending]
    /\ outcome = [r \in Reqs |-> "none"]
    /\ rctx = [r \in Reqs |-> NoContext]
    /\ accessKeys = [r \in Reqs |-> {}]

\* ------------------------------------------------------------- environment
Tick ==
    /\ now < MaxTime
    /\ now' = now + 1
    /\ UNCHANGED <<supportSecret, tenants, members, auditLog, nextId, pc, inp, ident,
                   ctx, sessKey, found, pend, outcome, rctx, accessKeys>>
    /\ UNCHANGED <<svars, xvars>>

\* admin.update_tenant(is_active=b) / admin.delete_tenant: committed at once
AdminSetActive(tid, b) ==
    /\ \E t \in tenants : t.id = tid /\ t.active # b
    /\ tenants' = {IF t.id = tid THEN [t EXCEPT !.active = b] ELSE t : t \in tenants}
    /\ UNCHANGED <<now, supportSecret, members, auditLog, nextId, pc, inp, ident,
                   ctx, sessKey, found, pend, outcome, rctx, accessKeys>>
    /\ UNCHANGED <<svars, xvars>>

\* ------------------------------------------------------ request life cycle
\* a request arrives in a fresh task: the ContextVar holds its default
Arrive(r, in) ==
    /\ pc[r] = "idle"
    /\ inp' = [inp EXCEPT ![r] = in]
    /\ pc' = [pc EXCEPT ![r] = "get_db"]
    /\ UNCHANGED <<now, supportSecret, tenants, members, auditLog, nextId, ident,
                   ctx, sessKey, found, pend, outcome, rctx, accessKeys>>
    /\ UNCHANGED <<svars, xvars>>

\* get_db up to its yield: open the session, SET app.current_tenant
GetDb(r) ==
    /\ pc[r] = "get_db"
    /\ sessKey' = [sessKey EXCEPT ![r] = SessionKeyFor(ctx, r)]
    /\ pc' = [pc EXCEPT ![r] = "get_user"]
    /\ UNCHANGED <<now, supportSecret, tenants, members, auditLog, nextId, inp, ident,
                   ctx, found, pend, outcome, rctx, accessKeys>>
    /\ UNCHANGED <<svars, xvars>>

\* get_current_user
GetCurrentUser(r) ==
    /\ pc[r] = "get_user"
    /\ IF inp[r].cred = "bad" \/ (inp[r].cred = "none" /\ REQUIRE_AUTH)
       THEN /\ outcome' = [outcome EXCEPT ![r] = "Unauthenticated"]
            /\ pc' = [pc EXCEPT ![r] = "exit_err"]
            /\ UNCHANGED <<ident, ctx>>
       ELSE IF inp[r].cred = "none"
       THEN /\ ctx' = SetTenantKey(ctx, r, PUBLIC_TENANT)
            /\ ident' = [ident EXCEPT ![r] =
                   [sub |-> Anonymous, tenant_id |-> PUBLIC_TENANT, role |-> "standard"]]
            /\ pc' = [pc EXCEPT ![r] = "resolve"]
            /\ UNCHANGED outcome
       ELSE /\ ctx' = SetTenantKey(ctx, r, inp[r].tokenTenant)
            /\ ident' = [ident EXCEPT ![r] =
                   [sub |-> inp[r].sub, tenant_id |-> inp[r].tokenTenant,
                    role |-> inp[r].role]]
            /\ pc' = [pc EXCEPT ![r] = "resolve"]
            /\ UNCHANGED outcome
    /\ UNCHANGED <<now, supportSecret, tenants, members, auditLog, nextId, inp,
                   sessKey, found, pend, rctx, accessKeys>>
    /\ UNCHANGED <<svars, xvars>>

\* raise HTTPException(...) out of the dependency chain
Raise(r, what) ==
    /\ outcome' = [outcome EXCEPT ![r] = what]
    /\ pc' = [pc EXCEPT ![r] = "exit_err"]

\* return TenantContext(...)
Return(r, context) ==
    /\ outcome' = [outcome EXCEPT ![r] = "ok"]
    /\ rctx' = [rctx EXCEPT ![r] = context]
    /\ pc' = [pc EXCEPT ![r] = "handler"]

IsPersonal(slug) == slug = NoSlug \/ slug = SlugPersonal

\* ---- personal path: get_current_tenant lines 147-184
\* the select of the caller's individual tenant
LookupIndividual(r) ==
    /\ pc[r] = "resolve"
    /\ IsPersonal(inp[r].slug)
    /\ LET hits == IndividualTenantsOf(VisibleTenants(r), ident[r].sub)
       IN  IF Cardinality(hits) > 1
           THEN /\ Raise(r, "Fault")
                /\ UNCHANGED found
           ELSE IF hits = {}
           THEN /\ pc' = [pc EXCEPT ![r] = "p_create"]
                /\ UNCHANGED <<found, outcome>>
           ELSE /\ found' = [found EXCEPT ![r] = (CHOOSE t \in hits : TRUE).id]
                /\ pc' = [pc EXCEPT ![r] = "p_key"]
                /\ UNCHANGED outcome
    /\ accessKeys' = Accessed(r, ctx)
    /\ UNCHANGED <<now, supportSecret, tenants, members, auditLog, nextId, inp, ident,
                   ctx, sessKey, pend, rctx>>
    /\ UNCHANGED <<svars, xvars>>

\* _create_individual_tenant: db.add, flush (INSERT), refresh.  The INSERT
\* waits while another open transaction holds a row with the same slug and
\* fails on a committed one.
CreateIndividual(r) ==
    /\ pc[r] = "p_create"
    /\ nextId <= MaxTenants
    /\ LET slug == IndividualSlug(ident[r].sub)
       IN  /\ ~SlugConflict(OthersPendingTenants(r), slug)
           /\ IF SlugConflict(VisibleTenants(r), slug)
              THEN /\ Raise(r, "Fault")
                   /\ UNCHANGED <<found, pend, nextId>>
              ELSE /\ pend' = [pend EXCEPT ![r].tenants =
                          @ \cup {TenantRow(nextId, slug, "individual", ident[r].sub, TRUE)}]
                   /\ found' = [found EXCEPT ![r] = nextId]
                   /\ nextId' = nextId + 1
                   /\ pc' = [pc EXCEPT ![r] = "p_key"]
                   /\ UNCHANGED outcome
    /\ accessKeys' = Accessed(r, ctx)
    /\ UNCHANGED <<now, supportSecret, tenants, members, auditLog, inp, ident,
                   ctx, sessKey, rctx>>
    /\ UNCHANGED <<svars, xvars>>

\* current_tenant_id.set(tenant.id), then the membership select
PersonalMembership(r) ==
    /\ pc[r] = "p_key"
    /\ ctx' = SetTenantKey(ctx, r, found[r])
    /\ LET hits == get_user_tenant_membership(VisibleMembers(r), ident[r].sub, found[r])
       IN  IF hits = {}
           THEN /\ pc' = [pc EXCEPT ![r] = "p_member"]
                /\ UNCHANGED <<outcome, rctx>>
           ELSE Return(r, PersonalContext(found[r], CHOOSE m \in hits : TRUE, ident[r].role))
    /\ accessKeys' = Accessed(r, ctx')
    /\ UNCHANGED <<now, supportSecret, tenants, members, auditLog, nextId, inp, ident,
                   sessKey, found, pend>>
    /\ UNCHANGED <<svars, xvars>>

\* db.add(UserTenant(role=OWNER)), flush, return
CreateOwnerMembership(r) ==
    /\ pc[r] = "p_member"
    /\ ~MemberConflict(OthersPendingMembers(r), ident[r].sub, found[r])
    /\ IF MemberConflict(VisibleMembers(r), ident[r].sub, found[r])
       THEN /\ Raise(r, "Fault")
            /\ UNCHANGED <<pend, rctx>>
       ELSE LET m == MemberRow(ident[r].sub, found[r], "owner", TRUE, FALSE, Null)
            IN  /\ pend' = [pend EXCEPT ![r].members = @ \cup {m}]
                /\ Return(r, PersonalContext(found[r], m, ident[r].role))
    /\ accessKeys' = Accessed(r, ctx)
    /\ UNCHANGED <<now, supportSecret, tenants, members, auditLog, nextId, inp, ident,
                   ctx, sessKey, found>>
    /\ UNCHANGED <<svars, xvars>>

\* ---- slug path: get_current_tenant lines 186-255
\* tenant = await get_tenant_by_slug(db, x_tenant_slug); 404 when absent
LookupBySlug(r) ==
    /\ pc[r] = "resolve"
    /\ ~IsPersonal(inp[r].slug)
    /\ LET hits == get_tenant_by_slug(VisibleTenants(r), inp[r].slug)
       IN  IF hits = {}
           THEN /\ Raise(r, "NotFound")
                /\ UNCHANGED found
           ELSE /\ found' = [found EXCEPT ![r] = (CHOOSE t \in hits : TRUE).id]
                /\ pc' = [pc EXCEPT ![r] = "s_key"]
                /\ UNCHANGED outcome
    /\ accessKeys' = Accessed(r, ctx)
    /\ UNCHANGED <<now, supportSecret, tenants, members, auditLog, nextId, inp, ident,
                   ctx, sessKey, pend, rctx>>
    /\ UNCHANGED <<svars, xvars>>

\* current_tenant_id.set(str(tenant.id))
SetKey(r) ==
    /\ pc[r] = "s_key"
    /\ ctx' = SetTenantKey(ctx, r, found[r])
    /\ pc' = [pc EXCEPT ![r] = "s_branch"]
    /\ UNCHANGED <<now, supportSecret, tenants, members, auditLog, nextId, inp, ident,
                   sessKey, found, pend, outcome, rctx, accessKeys>>
    /\ UNCHANGED <<svars, xvars>>

\* if is_platform_admin: return TenantContext(membership=None, admin=True)
PlatformAdminBypass(r) ==
    /\ pc[r] = "s_branch"
    /\ is_platform_admin(ident[r].role)
    /\ Return(r, AdminContext(found[r]))
    /\ UNCHANGED <<now, supportSecret, tenants, members, auditLog, nextId, inp, ident,
                   ctx, sessKey, found, pend, accessKeys>>
    /\ UNCHANGED <<svars, xvars>>

\* if is_support_agent: the token test, raising before any storage access
SupportTokenDenied(r) ==
    /\ pc[r] = "s_branch"
    /\ ~is_platform_admin(ident[r].role)
    /\ is_support_agent(ident[r].role)
    /\ SupportTokenRejected(supportSecret, inp[r].token)
    /\ Raise(r, "Forbidden")
    /\ UNCHANGED <<now, supportSecret, tenants, members, auditLog, nextId, inp, ident,
                   ctx, sessKey, found, pend, rctx, accessKeys>>
    /\ UNCHANGED <<svars, xvars>>

\* has_support_access = await verify_support_access(...); 403 when false
SupportCheck(r) ==
    /\ pc[r] = "s_branch"
    /\ ~is_platform_admin(ident[r].role)
    /\ is_support_agent(ident[r].role)
    /\ ~SupportTokenRejected(supportSecret, inp[r].token)
    /\ IF verify_support_access(VisibleMembers(r), ident[r].sub, found[r], now)
       THEN /\ pc' = [pc EXCEPT ![r] = "s_audit"]
            /\ UNCHANGED outcome
       ELSE Raise(r, "Forbidden")
    /\ accessKeys' = Accessed(r, ctx)
    /\ UNCHANGED <<now, supportSecret, tenants, members, auditLog, nextId, inp, ident,
                   ctx, sessKey, found, pend, rctx>>
    /\ UNCHANGED <<svars, xvars>>

\* log_support_access(action="data_viewed", ip_address=client_ip), flush, return
SupportAudit(r) ==
    /\ pc[r] = "s_audit"
    /\ pend' = [pend EXCEPT ![r].audits =
           Append(@, AuditRow(ident[r].sub, found[r], "data_viewed", IpAddr))]
    /\ Return(r, SupportContext(found[r]))
    /\ accessKeys' = Accessed(r, ctx)
    /\ UNCHANGED <<now, supportSecret, tenants, members, auditLog, nextId, inp, ident,
                   ctx, sessKey, found>>
    /\ UNCHANGED <<svars, xvars>>

\* standard user: the membership select; 403 when absent
StandardCheck(r) ==
    /\ pc[r] = "s_branch"
    /\ ~is_platform_admin(ident[r].role)
    /\ ~is_support_agent(ident[r].role)
    /\ LET hits == get_user_tenant_membership(VisibleMembers(r), ident[r].sub, found[r])
       IN  IF hits = {}
           THEN /\ Raise(r, "Forbidden")
                /\ UNCHANGED rctx
           ELSE Return(r, MemberContext(found[r], CHOOSE m \in hits : TRUE))
    /\ accessKeys' = Accessed(r, ctx)
    /\ UNCHANGED <<now, supportSecret, tenants, members, auditLog, nextId, inp, ident,
                   ctx, sessKey, found, pend>>
    /\ UNCHANGED <<svars, xvars>>

\* ---- after the dependency returned
\* the endpoint body completes
HandlerReturn(r) ==
    /\ pc[r] = "handler"
    /\ pc' = [pc EXCEPT ![r] = "exit_ok"]
    /\ UNCHANGED <<now, supportSecret, tenants, members, auditLog, nextId, inp, ident,
                   ctx, sessKey, found, pend, outcome, rctx, accessKeys>>
    /\ UNCHANGED <<svars, xvars>>

\* the endpoint body raises
HandlerFault(r) ==
    /\ pc[r] = "handler"
    /\ pc' = [pc EXCEPT ![r] = "exit_err"]
    /\ UNCHANGED <<now, supportSecret, tenants, members, auditLog, nextId, inp, ident,
                   ctx, sessKey, found, pend, outcome, rctx, accessKeys>>
    /\ UNCHANGED <<svars, xvars>>

\* get_db after its yield: session.commit(), then RESET app.current_tenant
CommitAndReset(r) ==
    /\ pc[r] = "exit_ok"
    /\ tenants' = tenants \cup pend[r].tenants
    /\ members' = members \cup pend[r].members
    /\ auditLog' = auditLog \o pend[r].audits
    /\ pend' = [pend EXCEPT ![r] = NoPending]
    /\ sessKey' = [sessKey EXCEPT ![r] = Null]
    /\ pc' = [pc EXCEPT ![r] = "done"]
    /\ UNCHANGED <<now, supportSecret, nextId, inp, ident, ctx, found, outcome, rctx,
                   accessKeys>>
    /\ UNCHANGED <<svars, xvars>>

\* get_db on an exception: session.rollback(), then RESET app.current_tenant
RollbackAndReset(r) ==
    /\ pc[r] = "exit_err"
    /\ pend' = [pend EXCEPT ![r] = NoPending]
    /\ sessKey' = [sessKey EXCEPT ![r] = Null]
    /\ pc' = [pc EXCEPT ![r] = "done"]
    /\ UNCHANGED <<now, supportSecret, tenants, members, auditLog, nextId, inp, ident,
                   ctx, found, outcome, rctx, accessKeys>>
    /\ UNCHANGED <<svars, xvars>>

\* ======================================================= sync cursor engine
ItemIds == {1, 2}

\* the mapped columns of class PlaidItem
PlaidItemColumns ==
    {"id", "tenant_id", "user_id", "item_id", "encrypted_access_token", "institution_id",
     "institution_name", "transaction_cursor", "is_active", "last_synced_at",
     "created_at", "updated_at"}

\* a row of plaid_items; credOk: decrypt_token accepts encrypted_access_token
ItemRow(tenant, active, tcursor, last, credOk) ==
    [tenant |-> tenant, active |-> active, transaction_cursor |-> tcursor,
     last_synced_at |-> last, credOk |-> credOk]

TxnRow(txid, item, tenant, ver) ==
    [txid |-> txid, item |-> item, tenant |-> tenant, ver |-> ver]

Page(added, modified, removed) ==
    [added |-> added, modified |-> modified, removed |-> removed]

Tx(id, ver) == [id |-> id, ver |-> ver]

\* what the provider holds for each item when every external transaction id
\* belongs to one item
DisjointFeeds ==
    [i \in ItemIds |->
        IF i = 1
        THEN << Page(<<Tx("t1", 1)>>, <<>>, <<>>),
                Page(<<Tx("t2", 1)>>, <<Tx("t1", 2)>>, <<>>),
                Page(<<>>, <<>>, <<"t1", "t9">>) >>
        ELSE << Page(<<Tx("t3", 1)>>, <<>>, <<>>) >>]

\* the same, except that the pages of item 2 also name t2, an id of item 1
SharedFeeds ==
    [DisjointFeeds EXCEPT ![2] =
        << Page(<<Tx("t3", 1)>>, <<Tx("t2", 7)>>, <<>>),
           Page(<<>>, <<>>, <<"t2">>) >>]

\* the pages of item i's feed, in order
Feed(i) == feeds[i]

InitProvider == feeds = DisjointFeeds

\* client.transactions_sync(cursor): the page after `cursor`, its continuation
\* token and whether more pages are pending
ProviderPage(i, c) ==
    IF c < Len(Feed(i))
    THEN [page |-> Feed(i)[c + 1], next_cursor |-> c + 1, has_more |-> c + 1 < Len(Feed(i))]
    ELSE [page |-> Page(<<>>, <<>>, <<>>), next_cursor |-> c, has_more |-> FALSE]

\* mutant: ON CONFLICT DO NOTHING, a stored row is left as it is
_upsert_transaction_insert_only(rows, item, tenant, tx) ==
    IF \E row \in rows : row.txid = tx.id THEN rows
    ELSE rows \cup {TxnRow(tx.id, item, tenant, tx.ver)}

\* pg_insert(Transaction)...on_conflict_do_update(plaid_transaction_id): a new
\* row under the item, or the mutable fields of the stored row overwritten
_upsert_transaction(rows, item, tenant, tx) ==
    IF \E row \in rows : row.txid = tx.id
    THEN {IF row.txid = tx.id THEN [row EXCEPT !.ver = tx.ver] ELSE row : row \in rows}
    ELSE rows \cup {TxnRow(tx.id, item, tenant, tx.ver)}

\* select by plaid_transaction_id, delete if present
_remove_transaction(rows, txid) == {row \in rows : row.txid # txid}

RECURSIVE UpsertAll(_, _, _, _)
UpsertAll(rows, item, tenant, txs) ==
    IF txs = <<>> THEN rows
    ELSE UpsertAll(_upsert_transaction(rows, item, tenant, Head(txs)), item, tenant,
                   Tail(txs))

RECURSIVE RemoveAll(_, _)
RemoveAll(rows, ids) ==
    IF ids = <<>> THEN rows
    ELSE RemoveAll(_remove_transaction(rows, Head(ids)), Tail(ids))

\* one iteration of the while loop: added, then modified, then removed
ApplyPage(rows, item, tenant, page) ==
    RemoveAll(UpsertAll(UpsertAll(rows, item, tenant, page.added), item, tenant,
                        page.modified),
              page.removed)

\* mutant: every sync starts from the empty cursor
StartingCursor_restart(row) == 0

\* `plaid_item.transaction_cursor or ""`; the empty cursor is 0
StartingCursor(row) ==
    IF row.transaction_cursor = Null THEN 0 ELSE row.transaction_cursor

\* last_synced_at IS NULL OR epoch(now - last_synced_at) / 3600 > frequency
IsDue(row, t) ==
    row.last_synced_at = Null \/ t - row.last_synced_at > row.sync_frequency_hours

\* the WHERE clause of the job's select
SelectedBy(kind, row, t) == row.active /\ (kind = "all" \/ IsDue(row, t))

\* building the select raises AttributeError when it names an attribute the
\* class does not map: sync_due_items names PlaidItem.sync_frequency_hours
SelectRaises(kind) == kind = "due" /\ "sync_frequency_hours" \notin PlaidItemColumns

\* the orders in which a select without ORDER BY may return a set of rows
Orders(S) ==
    {q \in [1..Cardinality(S) -> S] : \A i, j \in 1..Cardinality(S) : i # j => q[i] # q[j]}

\* get_plaid_client: `if not PLAID_CLIENT_ID or not PLAID_SECRET: raise ValueError`
ConfigMissing == ~plaidConfigured

ZeroSummary ==
    [items_processed |-> 0, items_skipped |-> 0, items_failed |-> 0,
     transactions_added |-> 0, transactions_modified |-> 0, transactions_removed |-> 0]

\* mutant: an item's exception leaves the for loop
AfterItemFailure_abort(q) == <<>>

\* `except Exception: ... summary["items_failed"] += 1`: the loop goes on with
\* the items left
AfterItemFailure(q) == q

InitSyncIdle ==
    /\ txns = {}
    /\ bpc = "idle"
    /\ bkind = "none"
    /\ queue = <<>>
    /\ cur = Null
    /\ cursor = Null
    /\ summary = ZeroSummary
    /\ selected = {}
    /\ result = [i \in ItemIds |-> "none"]
    /\ pagesOk = [i \in ItemIds |-> 0]
    /\ lastToken = [i \in ItemIds |-> Null]
    /\ startCursor = [i \in ItemIds |-> Null]
    /\ runs = 0

\* sync_transactions / sync_due_items up to the for loop
StartBatch(kind) ==
    /\ bpc \in {"idle", "done", "raised"}
    /\ runs < MaxRuns
    /\ ~ConfigMissing
    /\ ~SelectRaises(kind)
    /\ LET sel == {i \in ItemIds : SelectedBy(kind, items[i], now)}
       IN  /\ selected' = sel
           /\ \E q \in Orders(sel) : queue' = q
    /\ bkind' = kind
    /\ bpc' = "loop"
    /\ cur' = Null
    /\ cursor' = Null
    /\ summary' = ZeroSummary
    /\ result' = [i \in ItemIds |-> "none"]
    /\ pagesOk' = [i \in ItemIds |-> 0]
    /\ lastToken' = [i \in ItemIds |-> Null]
    /\ startCursor' = [i \in ItemIds |-> items[i].transaction_cursor]
    /\ runs' = runs + 1
    /\ UNCHANGED <<items, txns>>
    /\ UNCHANGED <<rvars, xvars>>

\* get_plaid_client raises ValueError, or the job's select cannot be built: the
\* exception leaves the job before any item is read, no summary
BatchRaises(kind) ==
    /\ bpc \in {"idle", "done", "raised"}
    /\ runs < MaxRuns
    /\ ConfigMissing \/ SelectRaises(kind)
    /\ bkind' = kind
    /\ bpc' = "raised"
    /\ queue' = <<>>
    /\ cur' = Null
    /\ cursor' = Null
    /\ summary' = ZeroSummary
    /\ selected' = {}
    /\ result' = [i \in ItemIds |-> "none"]
    /\ pagesOk' = [i \in ItemIds |-> 0]
    /\ lastToken' = [i \in ItemIds |-> Null]
    /\ startCursor' = [i \in ItemIds |-> items[i].transaction_cursor]
    /\ runs' = runs + 1
    /\ UNCHANGED <<items, txns>>
    /\ UNCHANGED <<rvars, xvars>>

\* next item of the loop; decrypt_token succeeds
BeginItem ==
    /\ bpc = "loop"
    /\ queue # <<>>
    /\ items[Head(queue)].credOk
    /\ cur' = Head(queue)
    /\ queue' = Tail(queue)
    /\ cursor' = StartingCursor(items[Head(queue)])
    /\ bpc' = "page"
    /\ UNCHANGED <<items, txns, bkind, summary, selected, result, pagesOk, lastToken,
                   startCursor, runs>>
    /\ UNCHANGED <<rvars, xvars>>

\* next item of the loop; decrypt_token raises InvalidToken
DecryptFails ==
    /\ bpc = "loop"
    /\ queue # <<>>
    /\ ~items[Head(queue)].credOk
    /\ result' = [result EXCEPT ![Head(queue)] = "failed"]
    /\ summary' = [summary EXCEPT !.items_failed = @ + 1]
    /\ queue' = AfterItemFailure(Tail(queue))
    /\ UNCHANGED <<items, txns, bpc, bkind, cur, cursor, selected, pagesOk, lastToken,
                   startCursor, runs>>
    /\ UNCHANGED <<rvars, xvars>>

\* one pass of the while loop; when has_more is false, the cursor and
\* last_synced_at are written and the item counts as processed
FetchPage ==
    /\ bpc = "page"
    /\ LET resp == ProviderPage(cur, cursor)
       IN  /\ txns' = ApplyPage(txns, cur, items[cur].tenant, resp.page)
           /\ pagesOk' = [pagesOk EXCEPT ![cur] = @ + 1]
           /\ lastToken' = [lastToken EXCEPT ![cur] = resp.next_cursor]
           /\ IF resp.has_more
              THEN /\ cursor' = resp.next_cursor
                   /\ summary' = [summary EXCEPT
                          !.transactions_added = @ + Len(resp.page.added),
                          !.transactions_modified = @ + Len(resp.page.modified),
                          !.transactions_removed = @ + Len(resp.page.removed)]
                   /\ UNCHANGED <<items, bpc, cur, result>>
              ELSE /\ items' = [items EXCEPT ![cur].transaction_cursor = resp.next_cursor,
                                             ![cur].last_synced_at = now]
                   /\ summary' = [summary EXCEPT
                          !.transactions_added = @ + Len(resp.page.added),
                          !.transactions_modified = @ + Len(resp.page.modified),
                          !.transactions_removed = @ + Len(resp.page.removed),
                          !.items_processed = @ + 1]
                   /\ result' = [result EXCEPT ![cur] = "ok"]
                   /\ bpc' = "loop"
                   /\ cur' = Null
                   /\ cursor' = Null
    /\ UNCHANGED <<bkind, queue, selected, startCursor, runs>>
    /\ UNCHANGED <<rvars, xvars>>

\* client.transactions_sync raises
FetchFails ==
    /\ bpc = "page"
    /\ result' = [result EXCEPT ![cur] = "failed"]
    /\ summary' = [summary EXCEPT !.items_failed = @ + 1]
    /\ queue' = AfterItemFailure(queue)
    /\ bpc' = "loop"
    /\ cur' = Null
    /\ cursor' = Null
    /\ UNCHANGED <<items, txns, bkind, selected, pagesOk, lastToken, startCursor, runs>>
    /\ UNCHANGED <<rvars, xvars>>

\* the loop is over: db.commit(), return summary
CommitBatch ==
    /\ bpc = "loop"
    /\ queue = <<>>
    /\ bpc' = "done"
    /\ UNCHANGED <<items, txns, bkind, queue, cur, cursor, summary, selected, result,
                   pagesOk, lastToken, startCursor, runs>>
    /\ UNCHANGED <<rvars, xvars>>

\* =================================================== manual sync of one item
\* an id no row of plaid_items has
AbsentItem == 3

\* path parameter item_id and the tenant_id claim of the caller's token
OneArg(item, tenant) == [item |-> item, tenant |-> tenant]
NoArg == OneArg(Null, Null)
OneArgs == {OneArg(i, t) : i \in ItemIds \cup {AbsentItem}, t \in {AcmeId, BetaId}}

\* how sync_plaid_item ends: the response status and the exception's message
OneOutcome(status, detail) == [status |-> status, detail |-> detail]
NoOutcome == OneOutcome("none", "none")

\* sync_plaid_item: `except ValueError` gives 404, `except Exception` gives 502
RouteError(exc, detail) ==
    IF exc = "ValueError" THEN OneOutcome("NotFound", detail)
    ELSE OneOutcome("BadGateway", detail)

OneZeroSummary ==
    [transactions_added |-> 0, transactions_modified |-> 0, transactions_removed |-> 0]

Snapshot(its, rows) == [items |-> its, txns |-> rows]

\* mutant: the select without its tenant_id condition
OneSelect_any_tenant(its, arg) == {i \in ItemIds : i = arg.item /\ its[i].active}

\* select(PlaidItem).where(id == item_id, tenant_id == tenant_id, is_active)
OneSelect(its, arg) ==
    {i \in ItemIds : i = arg.item /\ its[i].tenant = arg.tenant /\ its[i].active}

InitOneIdle ==
    /\ opc = "idle"
    /\ oarg = NoArg
    /\ ocursor = Null
    /\ osummary = OneZeroSummary
    /\ oout = NoOutcome
    /\ osnap = Snapshot(<<>>, {})
    /\ oruns = 0

\* the request starts: get_plaid_client, the select, decrypt_token
OneStart(arg) ==
    /\ opc \in {"idle", "done"}
    /\ oruns < MaxRuns
    /\ oruns' = oruns + 1
    /\ oarg' = arg
    /\ osnap' = Snapshot(items, txns)
    /\ osummary' = OneZeroSummary
    /\ IF ConfigMissing
       THEN /\ oout' = RouteError("ValueError", "credentials required")
            /\ opc' = "done"
            /\ ocursor' = Null
       ELSE IF OneSelect(items, arg) = {}
       THEN /\ oout' = RouteError("ValueError", "not found or not active")
            /\ opc' = "done"
            /\ ocursor' = Null
       ELSE IF ~items[arg.item].credOk
       THEN /\ oout' = RouteError("InvalidToken", "decrypt")
            /\ opc' = "done"
            /\ ocursor' = Null
       ELSE /\ oout' = NoOutcome
            /\ opc' = "page"
            /\ ocursor' = StartingCursor(items[arg.item])
    /\ UNCHANGED <<plaidConfigured, items, txns>>
    /\ UNCHANGED <<bpc, bkind, queue, cur, cursor, summary, selected, result, pagesOk,
                   lastToken, startCursor, runs>>
    /\ UNCHANGED <<rvars, mvars, gvars, pvars, cvars>>

\* one pass of the while loop; after the last page the cursor and last_synced_at
\* are written, the summary is returned and get_db commits
OnePage ==
    /\ opc = "page"
    /\ LET i == oarg.item
           resp == ProviderPage(i, ocursor)
       IN  /\ txns' = ApplyPage(txns, i, items[i].tenant, resp.page)
           /\ osummary' = [osummary EXCEPT
                  !.transactions_added = @ + Len(resp.page.added),
                  !.transactions_modified = @ + Len(resp.page.modified),
                  !.transactions_removed = @ + Len(resp.page.removed)]
           /\ IF resp.has_more
              THEN /\ ocursor' = resp.next_cursor
                   /\ UNCHANGED <<items, opc, oout>>
              ELSE /\ items' = [items EXCEPT ![i].transaction_cursor = resp.next_cursor,
                                             ![i].last_synced_at = now]
                   /\ ocursor' = Null
                   /\ opc' = "done"
                   /\ oout' = OneOutcome("ok", "synced")
    /\ UNCHANGED <<plaidConfigured, oarg, osnap, oruns>>
    /\ UNCHANGED <<bpc, bkind, queue, cur, cursor, summary, selected, result, pagesOk,
                   lastToken, startCursor, runs>>
    /\ UNCHANGED <<rvars, mvars, gvars, pvars, cvars>>

\* client.transactions_sync raises: 502, and get_db rolls the transaction back
OnePageFails ==
    /\ opc = "page"
    /\ oout' = RouteError("ApiException", "provider")
    /\ opc' = "done"
    /\ ocursor' = Null
    /\ items' = osnap.items
    /\ txns' = osnap.txns
    /\ UNCHANGED <<plaidConfigured, oarg, osummary, osnap, oruns>>
    /\ UNCHANGED <<bpc, bkind, queue, cur, cursor, summary, selected, result, pagesOk,
                   lastToken, startCursor, runs>>
    /\ UNCHANGED <<rvars, mvars, gvars, pvars, cvars>>

\* ============================================ impersonation session manager
\* timedelta(hours=1), in time units
SessionTTL == 1

\* an id no row of tenants has
AbsentTenant == 3

AdminUser == <<"r", "o", "o", "t">>

\* TokenData of a caller of the support endpoints
Caller(sub, role) == [sub |-> sub, tenant_id |-> PUBLIC_TENANT, role |-> role]

SessCallers ==
    {Caller(UserA, "support_agent"), Caller(UserB, "support_agent"),
     Caller(AdminUser, "platform_admin"), Caller(UserA, "standard")}

\* datetime.isoformat() and datetime.fromisoformat(s.replace("Z", "+00:00"))
isoformat(t) == <<"iso", t>>
fromisoformat(str) == str[2]

SessionRow(id, caller, tenant, t) ==
    [id |-> id, user_id |-> caller.sub, user_role |-> caller.role,
     tenant_id |-> tenant.id, tenant_slug |-> tenant.slug,
     started_at |-> isoformat(t), expires_at |-> isoformat(t + SessionTTL)]

\* SupportAccessLog(support_user_id, tenant_id, action, reason); no ip_address
SessionAuditRow(user, tenant, action, sid) ==
    [user |-> user, tenant |-> tenant, action |-> action, ip |-> "none", reason |-> sid]

\* require_support_agent = RoleChecker(["platform_admin", "support_agent"])
require_support_agent(caller) == caller.role \in {"platform_admin", "support_agent"}

\* cleanup_expired_sessions: drops the sessions with expires_at < now
cleanup_expired_sessions(store, t) ==
    {x \in store : ~(fromisoformat(x.expires_at) < t)}

\* mutant: the check of is_active left out
StartTenantCheck_no_active(rows, tid) ==
    IF ~\E t \in rows : t.id = tid THEN "NotFound" ELSE "ok"

\* start_impersonation: select(Tenant).where(id == tenant_id); 404 when absent,
\* 400 when not is_active
StartTenantCheck(rows, tid) ==
    IF ~\E t \in rows : t.id = tid THEN "NotFound"
    ELSE IF ~(CHOOSE t \in rows : t.id = tid).active THEN "BadRequest"
    ELSE "ok"

\* mutant: anybody may end a session
MayEnd_anyone(session, caller) == TRUE

\* end_impersonation: not (user_id != user.sub and user.role != "platform_admin")
MayEnd(session, caller) ==
    session.user_id = caller.sub \/ caller.role = "platform_admin"

\* get_active_sessions: the sessions shown to the caller
VisibleSessions(store, caller) ==
    {x \in store : caller.role = "platform_admin" \/ x.user_id = caller.sub}

\* the last call of the manager: the endpoint, the status and detail of its
\* response, the ids it listed
Call(op, status, detail, listed) ==
    [op |-> op, outcome |-> status, detail |-> detail, listed |-> listed]

NoCall == Call("none", "none", "none", {})

\* RoleChecker.__call__: 403 for a role outside allowed_roles
RoleRefused(op) == Call(op, "Forbidden", "role not authorized", {})

\* mutant: the session is left in the store
RemoveSession_keep(store, session) == store

\* del _active_sessions[session_id]
RemoveSession(store, session) == store \ {session}

\* the callers that start sessions
StartCallers ==
    {Caller(UserA, "support_agent"), Caller(AdminUser, "platform_admin"),
     Caller(UserA, "standard")}

\* how the request's unit of storage work may fail
StorageFaults == {"none", "flush", "commit"}

InitSessIdle ==
    /\ sessions = {}
    /\ nextSession = 1
    /\ mop = NoCall

\* POST /support/impersonate/{tenant_id}, with get_db's commit or rollback
StartImpersonation(caller, tid, fault) ==
    /\ nextSession <= MaxSessions
    /\ IF ~require_support_agent(caller)
       THEN /\ mop' = RoleRefused("start")
            /\ UNCHANGED <<sessions, nextSession, auditLog>>
       ELSE IF StartTenantCheck(tenants, tid) # "ok"
       THEN /\ mop' = Call("start", StartTenantCheck(tenants, tid), "tenant", {})
            /\ sessions' = cleanup_expired_sessions(sessions, now)
            /\ UNCHANGED <<nextSession, auditLog>>
       ELSE LET tenant == CHOOSE t \in tenants : t.id = tid
                new == SessionRow(nextSession, caller, tenant, now)
            IN  /\ sessions' = cleanup_expired_sessions(sessions, now) \cup {new}
                /\ nextSession' = nextSession + 1
                /\ IF fault = "none"
                   THEN /\ auditLog' = Append(auditLog,
                               SessionAuditRow(caller.sub, tid, "impersonation_started",
                                               new.id))
                        /\ mop' = Call("start", "ok", "started", {})
                   ELSE /\ auditLog' = auditLog
                        /\ mop' = Call("start", "Fault", "storage", {})
    /\ UNCHANGED <<now, supportSecret, tenants, members, nextId, pc, inp, ident,
                   ctx, sessKey, found, pend, outcome, rctx, accessKeys>>
    /\ UNCHANGED <<svars, ovars, gvars, pvars, cvars>>

\* DELETE /support/impersonate/{session_id}, with get_db's commit or rollback
EndImpersonation(caller, sid, fault) ==
    /\ IF ~require_support_agent(caller)
       THEN /\ mop' = RoleRefused("end")
            /\ UNCHANGED <<sessions, auditLog>>
       ELSE IF ~\E x \in sessions : x.id = sid
       THEN /\ mop' = Call("end", "NotFound", "Session not found or already expired", {})
            /\ UNCHANGED <<sessions, auditLog>>
       ELSE LET session == CHOOSE x \in sessions : x.id = sid
            IN  IF ~MayEnd(session, caller)
                THEN /\ mop' = Call("end", "Forbidden", "Cannot end another user's session", {})
                     /\ UNCHANGED <<sessions, auditLog>>
                ELSE IF fault = "flush"
                THEN /\ mop' = Call("end", "Fault", "storage", {})
                     /\ UNCHANGED <<sessions, auditLog>>
                ELSE IF fault = "commit"
                THEN /\ mop' = Call("end", "Fault", "storage", {})
                     /\ sessions' = RemoveSession(sessions, session)
                     /\ auditLog' = auditLog
                ELSE /\ mop' = Call("end", "ok", "ended", {})
                     /\ sessions' = RemoveSession(sessions, session)
                     /\ auditLog' = Append(auditLog,
                            SessionAuditRow(caller.sub, session.tenant_id,
                                            "impersonation_ended", sid))
    /\ UNCHANGED <<now, supportSecret, tenants, members, nextId, pc, inp, ident,
                   ctx, sessKey, found, pend, outcome, rctx, accessKeys>>
    /\ UNCHANGED nextSession
    /\ UNCHANGED <<svars, ovars, gvars, pvars, cvars>>

\* GET /support/sessions
GetActiveSessions(caller) ==
    /\ IF ~require_support_agent(caller)
       THEN /\ mop' = RoleRefused("list")
            /\ UNCHANGED sessions
       ELSE /\ sessions' = cleanup_expired_sessions(sessions, now)
            /\ mop' = Call("list", "ok", "listed",
                           {x.id : x \in VisibleSessions(sessions', caller)})
    /\ UNCHANGED <<now, supportSecret, tenants, members, auditLog, nextId, pc, inp, ident,
                   ctx, sessKey, found, pend, outcome, rctx, accessKeys>>
    /\ UNCHANGED nextSession
    /\ UNCHANGED <<svars, ovars, gvars, pvars, cvars>>

\* default of the query parameter `limit` of GET /support/audit-log
AuditLimit == 50

\* the tenant_id query parameter of GET /support/audit-log: absent or a tenant
AuditFilters == {Null, AcmeId, BetaId}

\* mutant: the filter on the acting support subject left out
VisibleAudit_unfiltered(log, caller, tfilter) ==
    {k \in 1..Len(log) : tfilter = Null \/ log[k].tenant = tfilter}

\* get_audit_log: the where clauses of the query, as positions in the log
VisibleAudit(log, caller, tfilter) ==
    {k \in 1..Len(log) :
        /\ caller.role = "platform_admin" \/ log[k].user = caller.sub
        /\ tfilter = Null \/ log[k].tenant = tfilter}

\* order_by(created_at.desc()).limit(n): the n newest of the positions
Newest(positions, n) ==
    {k \in positions : Cardinality({j \in positions : j > k}) < n}

\* GET /support/audit-log
GetAuditLog(caller, tfilter) ==
    /\ IF ~require_support_agent(caller)
       THEN mop' = RoleRefused("audit")
       ELSE mop' = Call("audit", "ok", "logs",
                        Newest(VisibleAudit(auditLog, caller, tfilter), AuditLimit))
    /\ UNCHANGED <<now, supportSecret, tenants, members, auditLog, nextId, pc, inp, ident,
                   ctx, sessKey, found, pend, outcome, rctx, accessKeys>>
    /\ UNCHANGED <<sessions, nextSession>>
    /\ UNCHANGED <<svars, ovars, gvars, pvars, cvars>>

\* ======================================== two syncs of one item, interleaved
\* the manual sync (sync_transactions_for_item under get_db) and the batch
\* job (sync_transactions), each with its own session and transaction
Syncers == {"manual", "batch"}

\* the item both syncs work on, and its tenant
RaceItem == 1
RaceTenant == AcmeId

\* the third page of item 1's feed, published while syncs run
LatePage == DisjointFeeds[RaceItem][3]

\* the feed of item 1 before the provider has published its third page
EarlyFeeds == [DisjointFeeds EXCEPT ![RaceItem] = SubSeq(@, 1, 2)]

Ids(rows) == {row.txid : row \in rows}

\* READ COMMITTED: a transaction reads the committed rows, with its own
\* uncommitted inserts, updates and deletes in place of them
ViewOf(p) == {row \in txns : row.txid \notin ctouched[p]} \cup cups[p]

\* the syncs whose transaction is open
OpenSyncs == {q \in Syncers : cpc[q] \in {"page", "flush"}}

\* the rows a page writes or deletes, given what the transaction reads: every
\* id upserted, and every id removed whose select finds a row
PageLocks(view, page) ==
    LET upIds == {page.added[k].id : k \in 1..Len(page.added)}
                     \cup {page.modified[k].id : k \in 1..Len(page.modified)}
    IN  upIds \cup {page.removed[k] : k \in {j \in 1..Len(page.removed) :
                                             page.removed[j] \in Ids(view) \cup upIds}}

\* a statement on a row that another open transaction wrote waits for it
Blocked(p, ids) == \E q \in OpenSyncs \ {p} : ids \cap ctouched[q] # {}

\* mutant: the flush writes the local cursor whether or not it changed
FlushedCursor_always(loaded, final, stored) == final

\* `plaid_item.transaction_cursor = cursor` and the flush: the UPDATE carries
\* the column only when the value differs from the one loaded
FlushedCursor(loaded, final, stored) == IF final = loaded THEN stored ELSE final

InitRaceIdle ==
    /\ cpc = [p \in Syncers |-> "idle"]
    /\ cloaded = [p \in Syncers |-> Null]
    /\ ccursor = [p \in Syncers |-> Null]
    /\ ctouched = [p \in Syncers |-> {}]
    /\ cups = [p \in Syncers |-> {}]
    /\ cruns = [p \in Syncers |-> 0]

\* the select of the PlaidItem, decrypt_token, `cursor = transaction_cursor or ""`
RaceStart(p) ==
    /\ cpc[p] \in {"idle", "done"}
    /\ cruns[p] < MaxRuns
    /\ items[RaceItem].active /\ items[RaceItem].credOk
    /\ cruns' = [cruns EXCEPT ![p] = @ + 1]
    /\ cloaded' = [cloaded EXCEPT ![p] = items[RaceItem].transaction_cursor]
    /\ ccursor' = [ccursor EXCEPT ![p] = StartingCursor(items[RaceItem])]
    /\ cpc' = [cpc EXCEPT ![p] = "page"]
    /\ UNCHANGED <<ctouched, cups, feeds>>
    /\ UNCHANGED <<rvars, svars, ovars, mvars, gvars>>

\* one pass of the while loop in the sync's own transaction
RacePage(p) ==
    /\ cpc[p] = "page"
    /\ LET resp == ProviderPage(RaceItem, ccursor[p])
           view == ViewOf(p)
           locks == PageLocks(view, resp.page)
           after == ApplyPage(view, RaceItem, RaceTenant, resp.page)
       IN  /\ ~Blocked(p, locks)
           /\ ctouched' = [ctouched EXCEPT ![p] = @ \cup locks]
           /\ cups' = [cups EXCEPT ![p] = {row \in after : row.txid \in ctouched'[p]}]
           /\ ccursor' = [ccursor EXCEPT ![p] = resp.next_cursor]
           /\ cpc' = [cpc EXCEPT ![p] = IF resp.has_more THEN "page" ELSE "flush"]
    /\ UNCHANGED <<cloaded, cruns, feeds>>
    /\ UNCHANGED <<rvars, svars, ovars, mvars, gvars>>

\* the cursor and last_synced_at are flushed and the transaction commits
RaceCommit(p) ==
    /\ cpc[p] = "flush"
    /\ txns' = ViewOf(p)
    /\ items' = [items EXCEPT
           ![RaceItem].transaction_cursor =
               FlushedCursor(cloaded[p], ccursor[p], items[RaceItem].transaction_cursor),
           ![RaceItem].last_synced_at = now]
    /\ ctouched' = [ctouched EXCEPT ![p] = {}]
    /\ cups' = [cups EXCEPT ![p] = {}]
    /\ cpc' = [cpc EXCEPT ![p] = "done"]
    /\ UNCHANGED <<cloaded, ccursor, cruns, feeds>>
    /\ UNCHANGED <<bpc, bkind, queue, cur, cursor, summary, selected, result, pagesOk,
                   lastToken, startCursor, runs>>
    /\ UNCHANGED <<rvars, ovars, mvars, gvars>>

\* the provider publishes the next page of the item's feed
ProviderPublishes ==
    /\ Len(feeds[RaceItem]) = 2
    /\ feeds' = [feeds EXCEPT ![RaceItem] = Append(@, LatePage)]
    /\ UNCHANGED cvars
    /\ UNCHANGED <<rvars, svars, ovars, mvars, gvars>>

\* ================================================== authorization helpers
\* class UserRole
UserRoles == {"owner", "admin", "member", "viewer", "platform_admin", "support_agent"}

\* the allowed_roles lists given to require_tenant_role
RoleSets == SUBSET {"owner", "admin", "member", "viewer"}

\* the contexts a helper may be handed: any membership or none, any flags
GuardContexts ==
    {TenantContext(AcmeId, m, s, a) :
        <<m, s, a>> \in ({NoMembership}
                          \cup {MemberRow(UserA, AcmeId, ro, TRUE, FALSE, Null) :
                                    ro \in UserRoles})
                        \X BOOLEAN \X BOOLEAN}

\* mutant: a support-access context passes as an admin
require_tenant_admin_support(context) ==
    IF context.is_platform_admin \/ context.is_support_access THEN "ok"
    ELSE IF context.user_membership = NoMembership THEN "Forbidden"
    ELSE IF context.user_membership.role \notin {"owner", "admin"} THEN "Forbidden"
    ELSE "ok"

\* require_tenant_admin
require_tenant_admin(context) ==
    IF context.is_platform_admin THEN "ok"
    ELSE IF context.user_membership = NoMembership THEN "Forbidden"
    ELSE IF context.user_membership.role \notin {"owner", "admin"} THEN "Forbidden"
    ELSE "ok"

\* require_tenant_owner
require_tenant_owner(context) ==
    IF context.is_platform_admin THEN "ok"
    ELSE IF context.user_membership = NoMembership THEN "Forbidden"
    ELSE IF context.user_membership.role # "owner" THEN "Forbidden"
    ELSE "ok"

\* require_tenant_role(allowed_roles)
require_tenant_role(allowed_roles, context) ==
    IF context.is_platform_admin THEN "ok"
    ELSE IF context.is_support_access THEN "ok"
    ELSE IF context.user_membership = NoMembership THEN "Forbidden"
    ELSE IF context.user_membership.role \notin allowed_roles THEN "Forbidden"
    ELSE "ok"

GuardCall(helper, allowed, status) ==
    [helper |-> helper, allowed |-> allowed, outcome |-> status]

NoGuardCall == GuardCall("none", {}, "none")

InitGuardIdle == gctx = NoContext /\ gcall = NoGuardCall

RequireTenantAdmin ==
    /\ gcall' = GuardCall("require_tenant_admin", {}, require_tenant_admin(gctx))
    /\ UNCHANGED <<gctx, rvars, svars, ovars, mvars, pvars, cvars>>

RequireTenantOwner ==
    /\ gcall' = GuardCall("require_tenant_owner", {}, require_tenant_owner(gctx))
    /\ UNCHANGED <<gctx, rvars, svars, ovars, mvars, pvars, cvars>>

RequireTenantRole(allowed_roles) ==
    /\ gcall' = GuardCall("require_tenant_role", allowed_roles,
                          require_tenant_role(allowed_roles, gctx))
    /\ UNCHANGED <<gctx, rvars, svars, ovars, mvars, pvars, cvars>>

\* ------------------------------------------------------------ specification
RequestStep(r) ==
    \/ GetDb(r)
    \/ GetCurrentUser(r)
    \/ LookupIndividual(r)
    \/ CreateIndividual(r)
    \/ PersonalMembership(r)
    \/ CreateOwnerMembership(r)
    \/ LookupBySlug(r)
    \/ SetKey(r)
    \/ PlatformAdminBypass(r)
    \/ SupportTokenDenied(r)
    \/ SupportCheck(r)
    \/ SupportAudit(r)
    \/ StandardCheck(r)
    \/ HandlerReturn(r)
    \/ HandlerFault(r)
    \/ CommitAndReset(r)
    \/ RollbackAndReset(r)

\* the two items of the store when no job has run
InitItems ==
    [i \in ItemIds |-> ItemRow(IF i = 1 THEN AcmeId ELSE BetaId, TRUE, Null, Null, TRUE)]

\* nothing but the resolver runs: the other components rest
InitRest ==
    /\ plaidConfigured = TRUE
    /\ InitOneIdle
    /\ InitSessIdle
    /\ InitGuardIdle
    /\ InitRaceIdle
    /\ InitProvider

Init == InitStore /\ InitRequests({1}) /\ items = InitItems /\ InitSyncIdle /\ InitRest

Next ==
    \/ Tick
    \/ \E t \in 1..MaxTenants, b \in BOOLEAN : AdminSetActive(t, b)
    \/ \E r \in Reqs, in \in Inputs : Arrive(r, in)
    \/ \E r \in Reqs : RequestStep(r)

Spec == Init /\ [][Next]_vars

\* ---- two requests in flight at once
ConcInputs ==
    {Input("valid", u, ro, tt, sl, NoToken) :
        <<u, ro, tt, sl>> \in Users \X {"standard", "platform_admin"}
                                \X TokenTenants \X {NoSlug, SlugAcme, SlugBeta}}
    \cup {Input("valid", UserA, "support_agent", PUBLIC_TENANT, SlugAcme, tk) :
              tk \in {NoToken, SecretValue}}

InitConc ==
    /\ now = 0
    /\ supportSecret = SecretValue
    /\ tenants = InitTenants
    /\ members \in BetaRowChoices
                    \cup {{MemberRow(UserA, AcmeId, "support_agent", TRUE, TRUE, Null)}}
    /\ auditLog = <<>>
    /\ nextId = 3
    /\ InitRequests(Reqs)
    /\ items = InitItems
    /\ InitSyncIdle
    /\ InitRest

NextConc ==
    \/ \E r \in Reqs, in \in ConcInputs : Arrive(r, in)
    \/ \E r \in Reqs : RequestStep(r)

SpecConc == InitConc /\ [][NextConc]_vars

\* ---- the batch jobs over a store of two items
InitSync ==
    /\ now = 0
    /\ supportSecret = NoSecret
    /\ tenants = InitTenants
    /\ members = {}
    /\ auditLog = <<>>
    /\ nextId = 3
    /\ InitRequests({})
    /\ \E a \in BOOLEAN, l \in {Null, 0}, ok1 \in BOOLEAN, ok2 \in BOOLEAN :
          items = [i \in ItemIds |->
                     IF i = 1 THEN ItemRow(AcmeId, TRUE, Null, Null, ok1)
                     ELSE ItemRow(BetaId, a, Null, l, ok2)]
    /\ InitSyncIdle
    /\ plaidConfigured \in BOOLEAN
    /\ InitOneIdle
    /\ InitSessIdle
    /\ InitGuardIdle
    /\ InitRaceIdle
    /\ InitProvider

NextSync ==
    \/ Tick
    \/ \E kind \in {"all", "due"} : StartBatch(kind)
    \/ \E kind \in {"all", "due"} : BatchRaises(kind)
    \/ BeginItem
    \/ DecryptFails
    \/ FetchPage
    \/ FetchFails
    \/ CommitBatch

SpecSync == InitSync /\ [][NextSync]_vars

\* ---- manual syncs of one item, one request after the other
InitOne ==
    /\ now = 0
    /\ supportSecret = NoSecret
    /\ tenants = InitTenants
    /\ members = {}
    /\ auditLog = <<>>
    /\ nextId = 3
    /\ InitRequests({})
    /\ \E a \in BOOLEAN, ok1 \in BOOLEAN :
          items = [i \in ItemIds |->
                     IF i = 1 THEN ItemRow(AcmeId, TRUE, Null, Null, ok1)
                     ELSE ItemRow(BetaId, a, Null, Null, TRUE)]
    /\ InitSyncIdle
    /\ plaidConfigured \in BOOLEAN
    /\ InitOneIdle
    /\ InitSessIdle
    /\ InitGuardIdle
    /\ InitRaceIdle
    /\ InitProvider

NextOne ==
    \/ Tick
    \/ \E arg \in OneArgs : OneStart(arg)
    \/ OnePage
    \/ OnePageFails

SpecOne == InitOne /\ [][NextOne]_vars

\* ---- the session manager, one call after the other
InitSess ==
    /\ now = 0
    /\ supportSecret = NoSecret
    /\ tenants = InitTenants
    /\ members = {}
    /\ auditLog = <<>>
    /\ nextId = 3
    /\ InitRequests({})
    /\ items = InitItems
    /\ InitSyncIdle
    /\ plaidConfigured = TRUE
    /\ InitOneIdle
    /\ InitSessIdle
    /\ InitGuardIdle
    /\ InitRaceIdle
    /\ InitProvider

\* the storage faults that can strike a call: none when the call ends before
\* its first storage write
FaultsOfStart(c, tid) ==
    IF require_support_agent(c) /\ StartTenantCheck(tenants, tid) = "ok"
    THEN StorageFaults ELSE {"none"}

FaultsOfEnd(c, sid) ==
    IF require_support_agent(c) /\ \E x \in sessions : x.id = sid /\ MayEnd(x, c)
    THEN StorageFaults ELSE {"none"}

NextSess ==
    \/ Tick
    \/ \E b \in BOOLEAN : AdminSetActive(BetaId, b)
    \/ \E c \in StartCallers, tid \in {BetaId, AbsentTenant} :
          \E f \in FaultsOfStart(c, tid) : StartImpersonation(c, tid, f)
    \/ \E c \in SessCallers, sid \in 1..(MaxSessions + 1) :
          \E f \in FaultsOfEnd(c, sid) : EndImpersonation(c, sid, f)
    \/ \E c \in SessCallers : GetActiveSessions(c)
    \/ \E c \in SessCallers, tf \in AuditFilters : GetAuditLog(c, tf)

SpecSess == InitSess /\ [][NextSess]_vars

\* ---- manual syncs when the provider names an id under two items
InitShared ==
    /\ now = 0
    /\ supportSecret = NoSecret
    /\ tenants = InitTenants
    /\ members = {}
    /\ auditLog = <<>>
    /\ nextId = 3
    /\ InitRequests({})
    /\ \E ok1 \in BOOLEAN :
          items = [i \in ItemIds |->
                     IF i = 1 THEN ItemRow(AcmeId, TRUE, Null, Null, ok1)
                     ELSE ItemRow(BetaId, TRUE, Null, Null, TRUE)]
    /\ InitSyncIdle
    /\ plaidConfigured \in BOOLEAN
    /\ InitOneIdle
    /\ InitSessIdle
    /\ InitGuardIdle
    /\ InitRaceIdle
    /\ feeds = SharedFeeds

SpecShared == InitShared /\ [][NextOne]_vars

\* ---- a manual sync and a batch job on one item, interleaved
InitRace ==
    /\ now = 0
    /\ supportSecret = NoSecret
    /\ tenants = InitTenants
    /\ members = {}
    /\ auditLog = <<>>
    /\ nextId = 3
    /\ InitRequests({})
    /\ items = InitItems
    /\ InitSyncIdle
    /\ plaidConfigured = TRUE
    /\ InitOneIdle
    /\ InitSessIdle
    /\ InitGuardIdle
    /\ feeds \in {DisjointFeeds, EarlyFeeds}
    /\ InitRaceIdle

NextRace ==
    \/ Tick
    \/ ProviderPublishes
    \/ \E p \in Syncers : RaceStart(p)
    \/ \E p \in Syncers : RacePage(p)
    \/ \E p \in Syncers : RaceCommit(p)

SpecRace == InitRace /\ [][NextRace]_vars

\* ---- personal-path requests one after the other, with admin updates and
\* soft-deletes of tenants between them
PersonalInputs ==
    {Input("valid", u, "standard", PUBLIC_TENANT, sl, NoToken) :
        <<u, sl>> \in Users \X {NoSlug, SlugPersonal}}

PersonalStep(r) ==
    \/ GetDb(r)
    \/ GetCurrentUser(r)
    \/ LookupIndividual(r)
    \/ CreateIndividual(r)
    \/ PersonalMembership(r)
    \/ CreateOwnerMembership(r)
    \/ HandlerReturn(r)
    \/ HandlerFault(r)
    \/ CommitAndReset(r)
    \/ RollbackAndReset(r)

InitPersonal ==
    /\ now = 0
    /\ supportSecret = NoSecret
    /\ tenants = InitTenants
    /\ members = {}
    /\ auditLog = <<>>
    /\ nextId = 3
    /\ InitRequests(Reqs)
    /\ items = InitItems
    /\ InitSyncIdle
    /\ InitRest

NextPersonal ==
    \/ \E t \in 3..MaxTenants, b \in BOOLEAN :
          (\A r \in Reqs : pc[r] \in {"idle", "done"}) /\ AdminSetActive(t, b)
    \/ \E in \in PersonalInputs : Arrive(1, in)
    \/ \E in \in PersonalInputs : pc[1] = "done" /\ Arrive(2, in)
    \/ \E r \in Reqs : PersonalStep(r)

SpecPersonal == InitPersonal /\ [][NextPersonal]_vars

\* ---- the authorization helpers on every context
InitGuard ==
    /\ now = 0
    /\ supportSecret = NoSecret
    /\ tenants = InitTenants
    /\ members = {}
    /\ auditLog = <<>>
    /\ nextId = 3
    /\ InitRequests({})
    /\ items = InitItems
    /\ InitSyncIdle
    /\ plaidConfigured = TRUE
    /\ InitOneIdle
    /\ InitSessIdle
    /\ gctx \in GuardContexts
    /\ gcall = NoGuardCall
    /\ InitRaceIdle
    /\ InitProvider

NextGuard ==
    \/ RequireTenantAdmin
    \/ RequireTenantOwner
    \/ \E allowed_roles \in RoleSets : RequireTenantRole(allowed_roles)

SpecGuard == InitGuard /\ [][NextGuard]_vars

\* ===================================================================== claims
ActiveTenantsWithSlug(slug) == {t \in tenants : t.slug = slug /\ t.active}

ActiveMembershipsOf(user, tid) ==
    {m \in members : m.user = user /\ m.tenant = tid /\ m.active}

BySlug(r, role) == ident[r].role = role /\ ~IsPersonal(inp[r].slug)

Leaves(r, at) == pc[r] = at /\ pc'[r] # at

\* C1: a standard caller resolving by slug gets NotFound when no active tenant
\* has the slug, Forbidden when the tenant is active but the caller holds no
\* active membership on it, and otherwise a context carrying exactly the
\* caller's membership on that tenant; no context is ever returned to a
\* standard caller for a tenant on which it has no active membership.
C1_StandardBySlug ==
    /\ [][\A r \in Reqs : BySlug(r, "standard") =>
            /\ Leaves(r, "resolve") =>
                 IF ActiveTenantsWithSlug(inp[r].slug) = {}
                 THEN outcome'[r] = "NotFound" /\ rctx'[r] = NoContext
                 ELSE /\ outcome'[r] = "none"
                      /\ found'[r] \in {t.id : t \in ActiveTenantsWithSlug(inp[r].slug)}
            /\ Leaves(r, "s_branch") =>
                 IF ActiveMembershipsOf(ident[r].sub, found[r]) = {}
                 THEN outcome'[r] = "Forbidden" /\ rctx'[r] = NoContext
                 ELSE /\ outcome'[r] = "ok"
                      /\ rctx'[r].tenant = found[r]
                      /\ rctx'[r].user_membership
                            \in ActiveMembershipsOf(ident[r].sub, found[r])
                      /\ ~rctx'[r].is_support_access
                      /\ ~rctx'[r].is_platform_admin]_vars
    /\ [](\A r \in Reqs : (BySlug(r, "standard") /\ outcome[r] = "ok") =>
            rctx[r].user_membership
                \in ActiveMembershipsOf(ident[r].sub, rctx[r].tenant))

C1_Witness ==
    \E r \in Reqs :
        /\ BySlug(r, "standard")
        /\ outcome[r] = "ok"
        /\ rctx[r].tenant = AcmeId
        /\ rctx[r].user_membership \in members

\* C2: a platform admin resolving by slug an existing active tenant succeeds
\* whatever membership it holds there, with membership = null and
\* is_platform_admin = true.
C2_PlatformAdminBypass ==
    [][\A r \in Reqs : BySlug(r, "platform_admin") =>
         /\ (Leaves(r, "resolve") /\ ActiveTenantsWithSlug(inp[r].slug) # {}) =>
              /\ pc'[r] = "s_key"
              /\ found'[r] \in {t.id : t \in ActiveTenantsWithSlug(inp[r].slug)}
         /\ Leaves(r, "s_key") => pc'[r] = "s_branch"
         /\ Leaves(r, "s_branch") =>
              /\ outcome'[r] = "ok"
              /\ rctx'[r].tenant = found[r]
              /\ rctx'[r].user_membership = NoMembership
              /\ rctx'[r].is_platform_admin]_vars

C2_Witness ==
    \E r \in Reqs :
        /\ BySlug(r, "platform_admin")
        /\ outcome[r] = "ok"
        /\ rctx[r].user_membership = NoMembership
        /\ \E m \in members :
              m.user = ident[r].sub /\ m.tenant = rctx[r].tenant /\ ~m.active

\* C3: a support agent resolving an active tenant by slug (with the support
\* token, where one is configured, accepted) succeeds if and only if an active
\* membership row exists for it with support_access_enabled and an expiry that
\* is null or strictly in the future; otherwise it fails Forbidden.
C3_SupportIffGranted ==
    [][\A r \in Reqs :
         (/\ BySlug(r, "support_agent")
          /\ Leaves(r, "s_branch")
          /\ ~(supportSecret # NoSecret /\ inp[r].token # supportSecret)) =>
            IF \E m \in members :
                   /\ m.user = ident[r].sub /\ m.tenant = found[r]
                   /\ m.active /\ m.sae
                   /\ (m.exp = Null \/ m.exp > now)
            THEN pc'[r] = "s_audit" /\ outcome'[r] = "none"
            ELSE outcome'[r] = "Forbidden"]_vars

\* C4: every returned TenantContext has a membership, or the support-access
\* flag, or the platform-admin flag.
C4_ContextNeverEmpty ==
    \A r \in Reqs : outcome[r] = "ok" =>
        /\ rctx[r].tenant # Null
        /\ \/ rctx[r].user_membership # NoMembership
           \/ rctx[r].is_support_access
           \/ rctx[r].is_platform_admin

C4_Witness ==
    \E r \in Reqs :
        /\ outcome[r] = "ok"
        /\ rctx[r].user_membership = NoMembership
        /\ rctx[r].is_platform_admin

\* C5: in a slug-based resolution the isolation key equals the looked-up
\* tenant's id before any role branch runs, so every Forbidden denial happens
\* with the key already set to the requested tenant's id.
C5_KeySetBeforeBranch ==
    \A r \in Reqs :
        (/\ ~IsPersonal(inp[r].slug)
         /\ (pc[r] \in {"s_branch", "s_audit"} \/ outcome[r] = "Forbidden")) =>
            /\ ctx[r] = found[r]
            /\ \E t \in tenants : t.id = ctx[r] /\ t.slug = inp[r].slug

C5_Witness ==
    \E r \in Reqs :
        /\ BySlug(r, "standard")
        /\ inp[r].slug = SlugBeta
        /\ outcome[r] = "Forbidden"
        /\ ctx[r] = BetaId
        /\ ActiveMembershipsOf(ident[r].sub, AcmeId) # {}

\* the keys request r itself brought in: the default of a missing key, the
\* tenant its token declares, the tenant it resolved
OwnKeys(r) ==
    {PUBLIC_TENANT}
        \cup (IF ident[r].tenant_id = Null THEN {} ELSE {ident[r].tenant_id})
        \cup (IF found[r] = Null THEN {} ELSE {found[r]})

\* C6: with two requests interleaved, the isolation key a request holds and the
\* key its storage operations run under are always keys that request itself
\* set, never a key set by the other request.
C6_NoKeyLeak ==
    \A r \in Reqs :
        /\ ctx[r] \in {Null} \cup OwnKeys(r)
        /\ sessKey[r] \in {Null} \cup OwnKeys(r)
        /\ \A a \in accessKeys[r] : a[1] \in OwnKeys(r) /\ a[2] \in OwnKeys(r)

C6_Witness ==
    /\ pc[1] = "s_branch" /\ pc[2] = "s_branch"
    /\ found[1] = AcmeId /\ found[2] = BetaId
    /\ ident[1].tenant_id = PUBLIC_TENANT /\ ident[2].tenant_id = PUBLIC_TENANT
    /\ ctx[1] = AcmeId /\ ctx[2] = BetaId
    /\ accessKeys[1] # {} /\ accessKeys[2] # {}

\* C7: every storage operation of a request runs with the session's isolation
\* key equal to the request's active tenant id, and the session key is reset on
\* every exit path.
C7_SessionKeyIsActiveTenant ==
    \A r \in Reqs :
        /\ \A a \in accessKeys[r] : a[1] = a[2]
        /\ pc[r] = "done" => sessKey[r] = Null

IndividualTenantsOwnedBy(u) == {t \in tenants : t.type = "individual" /\ t.owner = u}

\* C8: two concurrent first-time personal resolutions of one owner leave at
\* most one individual tenant for that owner.
C8_OneIndividualTenant ==
    \A u \in Users : Cardinality(IndividualTenantsOwnedBy(u)) <= 1

C8_Witness ==
    /\ pc[1] = "done" /\ pc[2] = "done"
    /\ IsPersonal(inp[1].slug) /\ IsPersonal(inp[2].slug)
    /\ ident[1].sub = UserA /\ ident[2].sub = UserA
    /\ found[1] # Null /\ found[2] = Null
    /\ outcome[1] = "ok" /\ outcome[2] = "Fault"
    /\ Cardinality(IndividualTenantsOwnedBy(UserA)) = 1

\* ---- C9, C10: batch sync
\* the item's fetch of a later page failed after at least one page was processed
FailedAfterProgress(i) == result[i] = "failed" /\ pagesOk[i] >= 1

\* the rows and field versions that the pages 1..k of item i's feed produce,
\* starting from an empty store
RECURSIVE RowsAfterPages(_, _, _)
RowsAfterPages(i, tenant, k) ==
    IF k = 0 THEN {}
    ELSE ApplyPage(RowsAfterPages(i, tenant, k - 1), i, tenant, Feed(i)[k])

\* C9: after a run in which an item processed k >= 1 pages and the fetch of
\* page k+1 failed, the item's persisted cursor is the continuation token of
\* page k, the changes of pages 1..k are stored, and the item is counted in
\* items_failed with the batch running to its end.
C9_PartialProgressCursor ==
    bpc = "done" =>
        \A i \in selected :
            FailedAfterProgress(i) =>
                /\ items[i].transaction_cursor = lastToken[i]
                /\ summary.items_failed >= 1

\* the parts of C9 the code does deliver: the stored changes of the pages
\* processed before the failure stay, and the batch ends with the item counted
C9_ProgressRowsKept ==
    (bpc = "done" /\ runs = 1) =>
        \A i \in selected :
            FailedAfterProgress(i) =>
                /\ {row \in txns : row.item = i} =
                       RowsAfterPages(i, items[i].tenant, pagesOk[i])
                /\ summary.items_failed >= 1
                /\ items[i].transaction_cursor = startCursor[i]

\* the items the claim counts as selected by a job: the active items for
\* sync_all_active; for sync_due, at least the active items never synced, which
\* are due whatever their frequency
SelectedPerClaim(kind) ==
    {i \in ItemIds : items[i].active /\ (kind = "all" \/ items[i].last_synced_at = Null)}

\* every selected item is counted exactly once, a failed one in items_failed
\* only, every other one synced and in items_processed
CountedOnce ==
    /\ \A i \in selected : result[i] \in {"ok", "failed"}
    /\ \A i \in ItemIds \ selected : result[i] = "none"
    /\ summary.items_failed = Cardinality({i \in selected : result[i] = "failed"})
    /\ summary.items_processed = Cardinality({i \in selected : result[i] = "ok"})
    /\ summary.items_processed + summary.items_failed = Cardinality(selected)
    /\ \A i \in selected :
          result[i] = "ok" => /\ items[i].last_synced_at \in 0..now
                              /\ items[i].transaction_cursor = lastToken[i]
                              /\ pagesOk[i] >= 1

\* C10: a batch run (all active, or due) in which the sync of a selected item
\* fails (provider error, or a credential that cannot be decrypted) returns a
\* summary instead of raising; in it every selected item is counted exactly
\* once, the failed one in items_failed only, every other selected item synced
\* and in items_processed, and items_processed + items_failed is the number of
\* selected items.
C10_FailureIsolated ==
    /\ bpc = "done" => CountedOnce
    /\ bpc = "raised" => \A i \in SelectedPerClaim(bkind) : items[i].credOk

\* the sync_all_active half of C10, which the code delivers
C10_AllActiveFailureIsolated ==
    (bpc = "done" /\ bkind = "all") => (CountedOnce /\ selected = SelectedPerClaim("all"))

\* a run over two items in which one failed and the other was synced
C10_AllActiveWitness ==
    /\ bpc = "done"
    /\ bkind = "all"
    /\ Cardinality(selected) = 2
    /\ \E i, j \in selected : result[i] = "failed" /\ result[j] = "ok"
    /\ summary.items_failed = 1
    /\ summary.items_processed = 1


\* ---- C11, C14, C15: manual sync of one item
\* the provider has nothing after the cursor the item held when the call began
NoNewData(snap, i) == snap.items[i].transaction_cursor = Len(Feed(i))

\* C11: a sync of an item that follows a completed sync of it, the provider
\* having no new data, leaves the stored transactions as they were and reports
\* zero added, modified and removed; no external transaction id is ever stored
\* twice.
C11_SecondSyncIdempotent ==
    /\ \A a, b \in txns : a.txid = b.txid => a = b
    /\ (opc = "done" /\ oout.status = "ok" /\ NoNewData(osnap, oarg.item)) =>
           /\ txns = osnap.txns
           /\ osummary = OneZeroSummary
           /\ items[oarg.item].transaction_cursor = Len(Feed(oarg.item))

\* the second of two syncs of item 1, whose first sync stored transactions
C11_Witness ==
    /\ opc = "done"
    /\ oout.status = "ok"
    /\ oruns = 2
    /\ oarg.item = 1
    /\ NoNewData(osnap, 1)
    /\ osnap.txns # {}

\* no row of plaid_items has the id, or the row is another tenant's, or inactive
NoSuchItem(arg) ==
    \/ arg.item \notin ItemIds
    \/ items[arg.item].tenant # arg.tenant
    \/ ~items[arg.item].active

\* C14: a manual sync whose item id is absent, belongs to another tenant or is
\* inactive ends NotFound with one and the same error, without a provider
\* call and without changing any item or transaction.
C14_NotFoundUniform ==
    [][(oruns' = oruns + 1 /\ NoSuchItem(oarg')) =>
          /\ opc' = "done"
          /\ oout'.status = "NotFound"
          /\ plaidConfigured => oout' = RouteError("ValueError", "not found or not active")
          /\ items' = items
          /\ txns' = txns]_vars

\* an active item of another tenant was asked for and the call ended NotFound
C14_Witness ==
    /\ opc = "done"
    /\ plaidConfigured
    /\ oarg.item \in ItemIds
    /\ items[oarg.item].active
    /\ items[oarg.item].tenant # oarg.tenant
    /\ oout.status = "NotFound"

\* C15: with the provider credentials missing, a manual sync fails at once as
\* a failure of the whole call that is not NotFound, and no item or transaction
\* is read, synced or changed.
C15_ConfigMissingFailsFast ==
    (opc = "done" /\ ~plaidConfigured) =>
        /\ oout.status \notin {"ok", "NotFound"}
        /\ items = osnap.items
        /\ txns = osnap.txns

\* the batch half of C15, which the code delivers: with the credentials missing
\* a batch job raises before its select, nothing is counted per item
C15_BatchFailsFast ==
    ~plaidConfigured =>
        /\ bpc \in {"idle", "raised"}
        /\ txns = {}
        /\ summary = ZeroSummary
        /\ \A i \in ItemIds : result[i] = "none" /\ items[i].transaction_cursor = Null


\* ---- C12, C13, C16: the job over the due items
\* a sync_due call with the provider credentials present has ended
DueRunEnded == bkind = "due" /\ bpc \in {"done", "raised"} /\ plaidConfigured

\* C12: sync_due syncs an active item if and only if it is due; an active item
\* never synced is due whatever its frequency, so once a sync_due call has ended
\* such an item has been synced, or attempted and failed; an item that is not
\* active is not attempted.
C12_DueItemsSynced ==
    DueRunEnded =>
        \A i \in ItemIds :
            /\ (items[i].active /\ items[i].last_synced_at = Null) => result[i] = "failed"
            /\ ~items[i].active => result[i] = "none"

\* C13: the summary that sync_due returns counts in items_skipped the active
\* items that were not due, so that items_processed + items_failed +
\* items_skipped is the number of active items.
C13_SkippedCounted ==
    DueRunEnded =>
        /\ bpc = "done"
        /\ summary.items_skipped =
               Cardinality({i \in ItemIds : items[i].active /\ i \notin selected})
        /\ summary.items_processed + summary.items_failed + summary.items_skipped =
               Cardinality({i \in ItemIds : items[i].active})

\* C16: a due item whose sync fails in a sync_due run (here: its credential
\* cannot be decrypted) is attempted once in the run and counted as failed, its
\* last_synced_at stays as it was, and so every later sync_due run selects and
\* attempts it again.
C16_FailedItemStaysDue ==
    DueRunEnded =>
        \A i \in ItemIds :
            (items[i].active /\ ~items[i].credOk /\ items[i].last_synced_at = Null) =>
                /\ i \in selected
                /\ result[i] = "failed"
                /\ summary.items_failed >= 1

\* what the batch loop does deliver for a failed item, in the job over all
\* active items: the step that marks it failed changes no row of plaid_items,
\* and an item marked failed is not visited again in the run
C16_FailureLeavesItem ==
    [][\A i \in ItemIds :
          /\ (result[i] # "failed" /\ result'[i] = "failed") => items' = items
          /\ (result[i] = "failed" /\ runs' = runs) => result'[i] = "failed" /\ cur' # i]_vars


\* ---- C17..C20: impersonation sessions
SessionIds(store) == {x.id : x \in store}

ExpiryOf(x) == fromisoformat(x.expires_at)

StartTargets == {BetaId, AbsentTenant}

\* C17: a start that succeeds stores exactly one new session, under an id no
\* stored session has, owned by the caller, expiring one hour after its
\* creation, and appends one impersonation_started audit entry for the caller
\* and the tenant; a start on a tenant that is absent or inactive fails, and
\* neither a session nor an audit entry is created.
C17_StartStoresAndAudits ==
    [][\A c \in StartCallers, tid \in StartTargets, f \in StorageFaults :
          StartImpersonation(c, tid, f) =>
              /\ mop'.outcome = "ok" =>
                    \E x \in sessions' :
                        /\ sessions' \ sessions = {x}
                        /\ x.id \notin SessionIds(sessions)
                        /\ x.user_id = c.sub
                        /\ x.tenant_id = tid
                        /\ ExpiryOf(x) = now + 1
                        /\ \E t \in tenants : t.id = tid /\ t.active
                        /\ auditLog' = Append(auditLog,
                               SessionAuditRow(c.sub, tid, "impersonation_started", x.id))
              /\ (~\E t \in tenants : t.id = tid /\ t.active) =>
                    /\ mop'.outcome \in {"NotFound", "BadRequest", "Forbidden"}
                    /\ sessions' \subseteq sessions
                    /\ auditLog' = auditLog]_vars

\* a second session was started while the first is stored
C17_Witness ==
    /\ mop.op = "start"
    /\ mop.outcome = "ok"
    /\ Cardinality(sessions) = 2
    /\ Len(auditLog) >= 2

\* C18: at or after a session's expiry, list_active does not return it and an
\* end of it by a support caller fails NotFound and writes no audit entry.
C18_ExpiredInvisible ==
    [][/\ \A c \in SessCallers :
             GetActiveSessions(c) =>
                 \A id \in mop'.listed :
                     \E x \in sessions : x.id = id /\ now < ExpiryOf(x)
       /\ \A c \in SessCallers, sid \in 1..(MaxSessions + 1), f \in StorageFaults :
             (/\ EndImpersonation(c, sid, f)
              /\ require_support_agent(c)
              /\ \E x \in sessions : x.id = sid /\ ~(now < ExpiryOf(x))) =>
                 /\ mop'.outcome = "NotFound"
                 /\ auditLog' = auditLog]_vars

\* C19: an end of a stored session by a caller who neither started it nor is
\* a platform admin fails Forbidden and leaves the store and the audit log as
\* they were.
C19_ForeignEndForbidden ==
    [][\A c \in SessCallers, sid \in 1..(MaxSessions + 1), f \in StorageFaults :
          (/\ EndImpersonation(c, sid, f)
           /\ \E x \in sessions :
                 x.id = sid /\ x.user_id # c.sub /\ c.role # "platform_admin") =>
              /\ mop'.outcome = "Forbidden"
              /\ sessions' = sessions
              /\ auditLog' = auditLog]_vars

\* a support agent was refused the end of a stored session that is not theirs
C19_Witness ==
    /\ mop.op = "end"
    /\ mop.outcome = "Forbidden"
    /\ mop.detail = "Cannot end another user's session"
    /\ sessions # {}

\* C20: an end of an unexpired stored session by its owner or by a platform
\* admin, when storage does not fail, appends one impersonation_ended entry
\* for the session's tenant and removes that session and no other; an id once
\* removed is never stored again, a list returns stored sessions only, and an
\* end of an id that is not stored fails NotFound.
C20_EndRemovesAndAudits ==
    [][/\ \A c \in SessCallers, sid \in 1..(MaxSessions + 1), f \in StorageFaults :
             EndImpersonation(c, sid, f) =>
                 /\ (/\ require_support_agent(c)
                     /\ f = "none"
                     /\ \E x \in sessions :
                           /\ x.id = sid
                           /\ now < ExpiryOf(x)
                           /\ (x.user_id = c.sub \/ c.role = "platform_admin")) =>
                        LET x == CHOOSE y \in sessions : y.id = sid
                        IN  /\ mop'.outcome = "ok"
                            /\ sessions' = sessions \ {x}
                            /\ auditLog' = Append(auditLog,
                                   SessionAuditRow(c.sub, x.tenant_id,
                                                   "impersonation_ended", sid))
                 /\ (require_support_agent(c) /\ sid \notin SessionIds(sessions)) =>
                        mop'.outcome = "NotFound" /\ auditLog' = auditLog
       /\ \A c \in SessCallers :
             GetActiveSessions(c) => mop'.listed \subseteq SessionIds(sessions)
       /\ \A x \in sessions' : x \in sessions \/ x.id >= nextSession
       /\ nextSession' >= nextSession
       /\ \A x \in sessions' : x.id < nextSession']_vars

\* the owner ended one of two stored sessions; the other is still stored
C20_Witness ==
    /\ mop.op = "end"
    /\ mop.outcome = "ok"
    /\ Cardinality(sessions) = 1
    /\ nextSession = 3
    /\ auditLog # <<>>
    /\ auditLog[Len(auditLog)].action = "impersonation_ended"

\* ---- C21: durability of the session audit trail
HasAudit(log, action, sid) ==
    \E k \in 1..Len(log) : log[k].action = action /\ log[k].reason = sid

\* C21: after every step each stored session has a committed
\* impersonation_started audit entry, and each session an end has removed has
\* a committed impersonation_ended entry, also when the flush or the commit
\* of the request fails.
C21_TransitionsAudited ==
    [][/\ \A x \in sessions' : HasAudit(auditLog', "impersonation_started", x.id)
       /\ \A c \in SessCallers, sid \in 1..(MaxSessions + 1), f \in StorageFaults :
             (/\ EndImpersonation(c, sid, f)
              /\ sid \in SessionIds(sessions)
              /\ sid \notin SessionIds(sessions')) =>
                 HasAudit(auditLog', "impersonation_ended", sid)]_vars

\* what holds when storage does not fail: a start or an end that answers ok
\* has appended its audit entry
C21_AuditedWhenStorageWorks ==
    [][/\ \A c \in StartCallers, tid \in StartTargets, f \in StorageFaults :
             (StartImpersonation(c, tid, f) /\ mop'.outcome = "ok") =>
                 \A x \in sessions' \ sessions :
                     HasAudit(auditLog', "impersonation_started", x.id)
       /\ \A c \in SessCallers, sid \in 1..(MaxSessions + 1), f \in StorageFaults :
             (EndImpersonation(c, sid, f) /\ mop'.outcome = "ok") =>
                 HasAudit(auditLog', "impersonation_ended", sid)]_vars

\* ---- C22: what the reads of the session manager show to whom
\* C22: to a caller who is not a platform admin, a list of sessions returns
\* only sessions the caller started and an audit log query returns only
\* entries whose acting subject is the caller, with or without a tenant
\* filter; to a platform admin the list returns every stored session and the
\* query every entry that passes the tenant filter.
C22_ReadsFilteredByOwner ==
    [][/\ \A c \in SessCallers :
             GetActiveSessions(c) =>
                 /\ c.role # "platform_admin" =>
                       \A id \in mop'.listed :
                           \E x \in sessions' : x.id = id /\ x.user_id = c.sub
                 /\ c.role = "platform_admin" => mop'.listed = SessionIds(sessions')
       /\ \A c \in SessCallers, tf \in AuditFilters :
             GetAuditLog(c, tf) =>
                 /\ c.role # "platform_admin" =>
                       \A k \in mop'.listed : auditLog[k].user = c.sub
                 /\ c.role = "platform_admin" =>
                       mop'.listed = {k \in 1..Len(auditLog) :
                                         tf = Null \/ auditLog[k].tenant = tf}]_vars

\* a support agent queried the audit log while it held entries of another
\* subject, and got some entries, fewer than the log holds
C22_Witness ==
    /\ mop.op = "audit"
    /\ mop.outcome = "ok"
    /\ mop.listed # {}
    /\ \E k \in 1..Len(auditLog) : k \notin mop.listed /\ auditLog[k].tenant = BetaId
    /\ \E k \in 1..Len(auditLog) : auditLog[k].user = AdminUser
    /\ \A k \in mop.listed : auditLog[k].user = UserA

\* ---- C23: the support token test
\* C23: for a support agent whose slug resolved to a tenant, when a support
\* secret is configured and the supplied token is absent or differs from it,
\* the resolution fails Forbidden whatever the caller's membership rows are,
\* and no storage operation runs between the branch and the denial; when no
\* secret is configured the resolution goes on to the audit step exactly when
\* the membership-flag check passes, whatever the token is.
C23_SupportTokenGate ==
    [][\A r \in Reqs :
         (BySlug(r, "support_agent") /\ Leaves(r, "s_branch")) =>
            IF supportSecret # NoSecret /\ inp[r].token # supportSecret
            THEN /\ outcome'[r] = "Forbidden"
                 /\ pc'[r] = "exit_err"
                 /\ accessKeys' = accessKeys
                 /\ pend' = pend
            ELSE supportSecret = NoSecret =>
                 IF verify_support_access(VisibleMembers(r), ident[r].sub, found[r], now)
                 THEN pc'[r] = "s_audit" /\ outcome'[r] = "none"
                 ELSE outcome'[r] = "Forbidden"]_vars

\* a support agent holding a valid grant on the tenant was denied for its
\* token
C23_Witness ==
    \E r \in Reqs :
        /\ BySlug(r, "support_agent")
        /\ outcome[r] = "Forbidden"
        /\ supportSecret # NoSecret
        /\ inp[r].token # supportSecret
        /\ found[r] # Null
        /\ verify_support_access(members, ident[r].sub, found[r], now)

\* with no secret configured, a support agent sending a token that is not
\* the secret was admitted on its grant
C23_NoSecretWitness ==
    \E r \in Reqs :
        /\ BySlug(r, "support_agent")
        /\ outcome[r] = "ok"
        /\ supportSecret = NoSecret
        /\ inp[r].token = WrongToken

\* ---- C24: the audit entry of a support-access resolution
DataViewed(r) ==
    [user |-> ident[r].sub, tenant |-> found[r], action |-> "data_viewed", ip |-> IpAddr]

\* C24: the step that returns a support-access context adds exactly one
\* data_viewed entry with the caller's subject, the resolved tenant and the
\* caller's address to the request's unit of work, and the context has no
\* membership and is_support_access set; every other step of the resolver,
\* in particular every denial and every return to a caller who is not a
\* support agent, adds no entry; the commit of the request appends to the
\* audit log exactly the entries the request added.
C24_SupportAccessAudited ==
    [][\A r \in Reqs :
         /\ (rctx'[r] # rctx[r] /\ rctx'[r].is_support_access) =>
               /\ ident[r].role = "support_agent"
               /\ outcome'[r] = "ok"
               /\ pend'[r].audits = Append(pend[r].audits, DataViewed(r))
               /\ pend[r].audits = <<>>
               /\ rctx'[r] = TenantContext(found[r], NoMembership, TRUE, FALSE)
         /\ ~(rctx'[r] # rctx[r] /\ rctx'[r].is_support_access) =>
               \/ pend'[r].audits = pend[r].audits
               \/ pend'[r].audits = <<>>
         /\ (outcome'[r] \notin {"ok", "none"} \/ ident'[r].role # "support_agent") =>
               pend'[r].audits = <<>>
         /\ auditLog' # auditLog =>
               \E q \in Reqs :
                   /\ CommitAndReset(q)
                   /\ auditLog' = auditLog \o pend[q].audits
                   /\ rctx[q].is_support_access
                   /\ Len(pend[q].audits) = 1]_vars

\* a support access was committed: the log holds its one entry
C24_Witness ==
    \E r \in Reqs :
        /\ pc[r] = "done"
        /\ rctx[r].is_support_access
        /\ Len(auditLog) = 1
        /\ auditLog[1].action = "data_viewed"
        /\ auditLog[1].user = ident[r].sub
        /\ auditLog[1].tenant = rctx[r].tenant

\* ---- C25: the authorization helpers
\* C25: require_tenant_admin admits a context iff it is platform admin or its
\* membership role is owner or admin; require_tenant_owner iff platform admin
\* or membership role owner; require_tenant_role(roles) iff platform admin,
\* or support access, or membership role in roles; each helper that does not
\* admit answers Forbidden.  A support-access context without membership is
\* refused by the first two and admitted by the third for every role list.
C25_HelpersAdmit ==
    LET role == IF gctx.user_membership = NoMembership THEN "none"
                ELSE gctx.user_membership.role
        admitted == gcall.outcome = "ok"
    IN  /\ gcall.outcome \in {"none", "ok", "Forbidden"}
        /\ gcall.helper = "require_tenant_admin" =>
              (admitted <=> (gctx.is_platform_admin \/ role \in {"owner", "admin"}))
        /\ gcall.helper = "require_tenant_owner" =>
              (admitted <=> (gctx.is_platform_admin \/ role = "owner"))
        /\ gcall.helper = "require_tenant_role" =>
              (admitted <=> (\/ gctx.is_platform_admin
                             \/ gctx.is_support_access
                             \/ role \in gcall.allowed))
        /\ (gctx = SupportContext(AcmeId) /\ gcall.helper # "none") =>
              (admitted <=> gcall.helper = "require_tenant_role")

\* a support-access context was refused by require_tenant_admin
C25_Witness ==
    /\ gctx = SupportContext(AcmeId)
    /\ gcall.helper = "require_tenant_admin"
    /\ gcall.outcome = "Forbidden"

\* a support-access context was admitted by require_tenant_role for the
\* empty role list
C25_RoleSetWitness ==
    /\ gctx = SupportContext(AcmeId)
    /\ gcall = GuardCall("require_tenant_role", {}, "ok")

\* ---- C26: personal-path resolution after soft-deletes
PersonalRequest(r) == inp[r].cred = "valid" /\ IsPersonal(inp[r].slug)

\* C26: a personal-path resolution by an authenticated caller never ends in
\* a denial or a fault, and the step that returns its context returns an
\* active individual tenant owned by the caller with an active owner
\* membership of the caller on it, that tenant being then the only active
\* individual tenant of the caller.
C26_PersonalAlwaysResolves ==
    [][\A r \in Reqs : PersonalRequest(r) =>
         /\ outcome'[r] \in {"none", "ok"}
         /\ (outcome[r] = "none" /\ outcome'[r] = "ok") =>
               LET rows == tenants' \cup pend'[r].tenants
                   m == rctx'[r].user_membership
               IN  /\ \E t \in rows :
                         /\ t.id = rctx'[r].tenant
                         /\ t.active /\ t.type = "individual"
                         /\ t.owner = ident[r].sub
                   /\ m.user = ident[r].sub /\ m.tenant = rctx'[r].tenant
                   /\ m.active /\ m.role = "owner"
                   /\ Cardinality(IndividualTenantsOf(rows, ident[r].sub)) = 1]_vars

\* what the code does deliver: a personal-path resolution that returns a
\* context returns one as C26 describes
C26_ReturnedContextIsPersonal ==
    [][\A r \in Reqs : (PersonalRequest(r) /\ outcome[r] = "none" /\ outcome'[r] = "ok") =>
           LET rows == tenants' \cup pend'[r].tenants
               m == rctx'[r].user_membership
           IN  /\ \E t \in rows :
                     /\ t.id = rctx'[r].tenant
                     /\ t.active /\ t.type = "individual"
                     /\ t.owner = ident[r].sub
               /\ m.user = ident[r].sub /\ m.tenant = rctx'[r].tenant
               /\ m.active /\ m.role = "owner"
               /\ Cardinality(IndividualTenantsOf(rows, ident[r].sub)) = 1]_vars

\* ---- C27: the pages of one sync, in order
\* what a page asks for, stated on the rows: every id among added and modified
\* is stored with the version of its last mention, new ids under the item
\* synced, and no id among removed is stored
PageEffect(rows, item, tenant, page) ==
    LET ups == page.added \o page.modified
        upIds == {ups[k].id : k \in 1..Len(ups)}
        lastVer(id) ==
            ups[CHOOSE k \in 1..Len(ups) :
                    ups[k].id = id /\ \A j \in (k + 1)..Len(ups) : ups[j].id # id].ver
        gone == {page.removed[k] : k \in 1..Len(page.removed)}
        written ==
            {IF row.txid \in upIds THEN [row EXCEPT !.ver = lastVer(row.txid)] ELSE row :
                 row \in rows}
            \cup {TxnRow(id, item, tenant, lastVer(id)) :
                      id \in {x \in upIds : \A row \in rows : row.txid # x}}
    IN  {row \in written : row.txid \notin gone}

\* the pages after cursor c, applied in the provider's order
RECURSIVE FoldFeed(_, _, _, _)
FoldFeed(rows, item, tenant, c) ==
    IF c >= Len(Feed(item)) THEN rows
    ELSE FoldFeed(PageEffect(rows, item, tenant, Feed(item)[c + 1]), item, tenant, c + 1)

\* C27: each pass of a sync asks the provider for the page after the
\* continuation token of the previous pass and applies it, added then
\* modified then removed; a sync that ends ok leaves the stored transactions
\* equal to the pages after the starting cursor folded in order over the
\* prior store, the item's cursor equal to the last page's continuation
\* token, and last_synced_at set, also when the only page was empty.
C27_PagesFoldedInOrder ==
    /\ [][OnePage =>
            LET i == oarg.item
                resp == ProviderPage(i, ocursor)
            IN  /\ txns' = PageEffect(txns, i, items[i].tenant, resp.page)
                /\ IF resp.has_more
                   THEN /\ ocursor' = resp.next_cursor
                        /\ resp.next_cursor = ocursor + 1
                        /\ items' = items
                        /\ opc' = "page"
                   ELSE /\ items'[i].transaction_cursor = resp.next_cursor
                        /\ items'[i].last_synced_at = now
                        /\ oout'.status = "ok"]_vars
    /\ []((opc = "done" /\ oout.status = "ok") =>
            LET i == oarg.item
            IN  /\ txns = FoldFeed(osnap.txns, i, osnap.items[i].tenant,
                                   StartingCursor(osnap.items[i]))
                /\ items[i].transaction_cursor = Len(Feed(i))
                /\ items[i].last_synced_at # Null
                /\ \A row \in txns : row.txid \notin {"t1", "t9"} \/ i # 1)

\* the first sync of item 1 went through its three pages: t1, added on the
\* first page and removed on the third, is not stored, and the removal of
\* t9, never stored, did not fail
C27_Witness ==
    /\ opc = "done"
    /\ oout.status = "ok"
    /\ oarg.item = 1
    /\ osnap.txns = {}
    /\ txns = {TxnRow("t2", 1, AcmeId, 1)}
    /\ items[1].transaction_cursor = 3
    /\ osummary.transactions_removed = 2

\* a sync whose only page was empty set last_synced_at anew
C27_EmptyPageWitness ==
    /\ opc = "done"
    /\ oout.status = "ok"
    /\ osummary = OneZeroSummary
    /\ osnap.items[oarg.item].last_synced_at # Null
    /\ items[oarg.item].last_synced_at > osnap.items[oarg.item].last_synced_at

\* ---- C28: a sync and the transactions of other items
OtherItemsRows(rows, i) == {row \in rows : row.item # i}

\* C28: no pass of a sync of item i changes or deletes a stored transaction
\* whose item is not i, whatever ids the provider's page names.
C28_OtherItemsUntouched ==
    [][OnePage => OtherItemsRows(txns', oarg.item) = OtherItemsRows(txns, oarg.item)]_vars

\* the same statement for a provider whose pages for an item name only ids
\* of that item: this much holds
C28_UntouchedWhenIdsDisjoint ==
    [][(OnePage /\ feeds = DisjointFeeds) =>
          OtherItemsRows(txns', oarg.item) = OtherItemsRows(txns, oarg.item)]_vars

\* ---- C29: two syncs of one item, interleaved
\* what the provider holds for item i at continuation token k: its first k
\* pages folded over the empty store
RECURSIVE ProviderStateAt(_, _, _)
ProviderStateAt(i, tenant, k) ==
    IF k = 0 THEN {}
    ELSE PageEffect(ProviderStateAt(i, tenant, k - 1), i, tenant, Feed(i)[k])

\* the ids the provider reported removed on its pages 1..k
RemovedUpTo(i, k) ==
    UNION {{Feed(i)[j].removed[n] : n \in 1..Len(Feed(i)[j].removed)} : j \in 1..k}

C29_BothRemoveWitness ==
    /\ \A p \in Syncers : cpc[p] = "done" /\ cloaded[p] = 2 /\ ccursor[p] = 3
    /\ items[RaceItem].transaction_cursor = 3
    /\ "t1" \notin Ids(txns)

\* a sync waits in its while loop for a row the other sync wrote
C29_WaitingWitness ==
    \E p \in Syncers :
        /\ cpc[p] = "page"
        /\ Blocked(p, PageLocks(ViewOf(p), ProviderPage(RaceItem, ccursor[p]).page))

\* ---- C30: the access mode of a returned context
AccessModes(c) ==
    {mode \in {"membership", "support", "platform_admin"} :
        \/ mode = "membership" /\ c.user_membership # NoMembership
        \/ mode = "support" /\ c.is_support_access
        \/ mode = "platform_admin" /\ c.is_platform_admin}

\* C30: every returned TenantContext has exactly one access mode: a
\* membership with both flags false, or is_support_access alone with no
\* membership, or is_platform_admin alone with no membership.
C30_ExactlyOneMode ==
    \A r \in Reqs : outcome[r] = "ok" => Cardinality(AccessModes(rctx[r])) = 1

\* what holds on the slug path: the contexts returned there have one mode
C30_OneModeBySlug ==
    \A r \in Reqs : (outcome[r] = "ok" /\ ~IsPersonal(inp[r].slug)) =>
        Cardinality(AccessModes(rctx[r])) = 1

====
